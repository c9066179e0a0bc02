---- MODULE AssignmentControlProofs ----
(***************************************************************************)
(* The assignment control plane, proved for every number of partitions,    *)
(* boots and faults.  What the balancing algorithm computes plays no part: *)
(* the arguments are about versions, requests in flight and the order of   *)
(* the awaits.                                                             *)
(***************************************************************************)
EXTENDS AssignmentControl, TLAPS

-----------------------------------------------------------------------------
(* The inductive invariant.                                                *)

\* A control loop's locals, and a document, as records.
IsDocument(d) == d.version \in Nat /\ d.eligible \subseteq Boots
IsLoop(p) ==
    /\ DOMAIN p = {"pc", "cur", "seen", "next", "pos", "token", "synced", "cand"}
    /\ DOMAIN p.cand = {"set", "known", "elapsed"}
    /\ p.pc \in {"idle", "lease", "decide", "load", "cas", "sync"}
    /\ p.pos \in Partitions
    /\ p.pc # "sync" => p.pos = 0
    /\ IsDocument(p.cur) /\ IsDocument(p.next)
    /\ p.seen \subseteq Boots
    /\ p.synced \in Nat

Lives == {"none", "warming", "active", "draining", "tombstone"}
TasksOK ==
    /\ member \in [Boots -> Lives]
    /\ beat \in [Boots -> Lives \ {"tombstone"}]
    /\ state \in [Boots -> {"warming", "active", "draining", "off"}]
    /\ drain \in [Boots -> {"no", "announce", "release", "wait", "done"}]
    /\ announced \subseteq Boots
    /\ coord \in Boots \cup {Nobody, Orphan}
    /\ faults \in 0 .. MaxFaults
LoopsOK ==
    /\ IsDocument(doc)
    /\ DOMAIN view = Partitions
    /\ \A p \in Partitions : IsDocument(view[p])
    /\ DOMAIN proc = Boots
    /\ \A b \in Boots : IsLoop(proc[b])

\* The documents a task has read back from Redis or written there: what it
\* loaded for this pass, and what it is projecting.
Held(b) == {d \in {proc[b].cur} : proc[b].pc \in {"lease", "decide"}}
           \cup {d \in {proc[b].next} : proc[b].pc = "sync"}
Known == Documents \cup UNION {Held(b) : b \in Boots}

\* Every document anyone holds or shows was committed: none is newer than the
\* committed one, and a version names one document.
Committed ==
    /\ \A d \in Known : d.version <= doc.version
    /\ \A d, e \in Known : d.version = e.version => d = e

\* A projection under way has reached the partitions before its position.
Projecting ==
    \A b \in Boots, p \in Partitions :
        proc[b].pc = "sync" /\ p < proc[b].pos => view[p].version >= proc[b].next.version

\* A draining announcement comes from a task that has begun to drain, and every
\* heartbeat a task sent before its announcement finds the announcement standing.
Retirement ==
    \A b \in Boots :
        /\ drain[b] # "no" => state[b] \in {"draining", "off"}
        /\ beat[b] = "draining" => state[b] \in {"draining", "off"}
        /\ b \in announced => state[b] \in {"draining", "off"}
        /\ member[b] \in {"draining", "tombstone"} => b \in announced
        /\ b \in announced /\ beat[b] \in {"active", "warming"}
              => member[b] \in {"draining", "tombstone"}

TaskInv == TasksOK /\ Retirement /\ NoResurrection
LoopInv == LoopsOK /\ Committed /\ Projecting /\ CacheIsProof
Inv == TaskInv /\ LoopInv

-----------------------------------------------------------------------------
(* The control loops.                                                      *)

\* A loop that holds only documents already known, starts a projection at the
\* first partition or goes on where it was, and claims no more than before,
\* keeps the invariant.
LEMMA LoopMoves ==
    ASSUME LoopInv, NEW b \in Boots, NEW q, IsLoop(q),
           proc' = [proc EXCEPT ![b] = q], UNCHANGED <<doc, view>>,
           q.pc \in {"lease", "decide"} => q.cur \in Known,
           q.pc = "sync" => q.next \in Known,
           q.pc = "sync" => \/ q.pos = 0
                            \/ proc[b].pc = "sync" /\ q.pos = proc[b].pos
                               /\ q.next = proc[b].next,
           q.synced <= proc[b].synced
    PROVE  LoopInv'
  <1>1. proc'[b] = q /\ \A c \in Boots \ {b} : proc'[c] = proc[c]
    BY DEF LoopInv, LoopsOK
  <1>2. LoopsOK'
    BY <1>1 DEF LoopInv, LoopsOK, IsDocument
  <1>3. Known' \subseteq Known
    <2>1. Documents' = Documents BY DEF Documents
    <2>2. \A c \in Boots \ {b} : Held(c)' = Held(c) BY <1>1 DEF Held
    <2>3. Held(b)' \subseteq Known BY <1>1 DEF Held
    <2> QED BY <2>1, <2>2, <2>3 DEF Known
  <1>4. Committed' BY <1>3 DEF LoopInv, Committed
  <1>5. Projecting'
    <2> SUFFICES ASSUME NEW c \in Boots, NEW p \in Partitions,
                        proc'[c].pc = "sync", p < proc'[c].pos
                 PROVE  view[p].version >= proc'[c].next.version
      BY DEF Projecting
    <2>1. CASE c # b BY <1>1, <2>1 DEF LoopInv, Projecting
    <2>2. CASE c = b
      <3>1. p \in Int /\ p >= 0 BY PartitionAssumption DEF Partitions
      <3> QED BY <1>1, <2>2, <3>1 DEF LoopInv, Projecting
    <2> QED BY <2>1, <2>2
  <1>6. CacheIsProof'
    <2> SUFFICES ASSUME NEW c \in Boots, NEW p \in Partitions
                 PROVE  view[p].version >= proc'[c].synced
      BY DEF CacheIsProof
    <2>1. view[p].version \in Nat /\ proc[b].synced \in Nat /\ q.synced \in Nat
      BY DEF LoopInv, LoopsOK, IsDocument, IsLoop
    <2>2. view[p].version >= proc[c].synced /\ view[p].version >= proc[b].synced
      BY DEF LoopInv, CacheIsProof
    <2> QED BY <1>1, <2>1, <2>2
  <1> QED BY <1>2, <1>4, <1>5, <1>6 DEF LoopInv

\* The end of a pass, however it ends.
LEMMA PassEnds ==
    ASSUME LoopInv, NEW b \in Boots, NEW p, IsLoop(p), p.synced <= proc[b].synced,
           NEW ok, EndPass(b, p, ok), UNCHANGED <<doc, view>>
    PROVE  LoopInv'
  <1>1. PICK q : q = [Idle EXCEPT !.token = p.token, !.synced = p.synced, !.cand = p.cand]
    OBVIOUS
  <1>2. proc' = [proc EXCEPT ![b] = q] BY <1>1 DEF EndPass
  <1>3. q = [pc |-> "idle", cur |-> NoDocument, seen |-> {}, next |-> NoDocument, pos |-> 0,
             token |-> p.token, synced |-> p.synced, cand |-> p.cand]
    BY <1>1 DEF Idle
  <1>4. IsLoop(q)
    BY <1>3, PartitionAssumption DEF IsLoop, IsDocument, NoDocument, Partitions
  <1>5. q.pc = "idle" /\ q.synced = p.synced BY <1>3
  <1> QED BY <1>2, <1>4, <1>5, LoopMoves

\* A document that a task loaded or committed is known.
LEMMA KnownDocuments ==
    /\ doc \in Known
    /\ \A p \in Partitions : view[p] \in Known
    /\ \A b \in Boots : /\ proc[b].pc \in {"lease", "decide"} => proc[b].cur \in Known
                        /\ proc[b].pc = "sync" => proc[b].next \in Known
  <1>1. doc \in Known /\ \A p \in Partitions : view[p] \in Known BY DEF Known, Documents
  <1>2. \A b \in Boots : Held(b) \subseteq Known BY DEF Known
  <1>3. \A b \in Boots : /\ proc[b].pc \in {"lease", "decide"} => proc[b].cur \in Held(b)
                         /\ proc[b].pc = "sync" => proc[b].next \in Held(b)
    BY DEF Held
  <1> QED BY <1>1, <1>2, <1>3

\* A pass starts with a document it just read, or ends at once.
LEMMA TickLoops ==
    ASSUME LoopInv, NEW b \in Boots, Tick(b) PROVE LoopInv'
  <1>0. IsLoop(proc[b]) /\ proc[b].pc = "idle" /\ IsDocument(doc)
    BY DEF LoopInv, LoopsOK, Tick
  <1>a. proc[b].synced <= proc[b].synced BY <1>0 DEF IsLoop
  <1>1. UNCHANGED <<doc, view>> BY DEF Tick
  <1>2. CASE EndPass(b, proc[b], TRUE)
    BY <1>0, <1>a, <1>1, <1>2, PassEnds
  <1>3. CASE Continue(b, [proc[b] EXCEPT !.pc = "lease", !.cur = doc])
    <2>1. PICK q : q = [proc[b] EXCEPT !.pc = "lease", !.cur = doc] OBVIOUS
    <2>2. IsLoop(q) /\ q.pc = "lease" /\ q.cur = doc /\ q.synced <= proc[b].synced
      BY <1>0, <2>1 DEF IsLoop, IsDocument
    <2>3. proc' = [proc EXCEPT ![b] = q] BY <1>3, <2>1 DEF Continue
    <2> QED BY <1>1, <2>2, <2>3, KnownDocuments, LoopMoves
  <1> QED BY <1>2, <1>3 DEF Tick

\* Asking for the coordinator lease moves the loop on with the document it
\* read, or ends its pass.
LEMMA CoordinateLoops ==
    ASSUME LoopInv, NEW b \in Boots, Coordinate(b) PROVE LoopInv'
  <1>0. IsLoop(proc[b]) /\ proc[b].pc = "lease" BY DEF LoopInv, LoopsOK, Coordinate
  <1>a. proc[b].synced <= proc[b].synced BY <1>0 DEF IsLoop
  <1>1. UNCHANGED <<doc, view>> BY DEF Coordinate
  <1>2. PICK lost : lost = [proc[b] EXCEPT !.token = FALSE,
                               !.cand = IF proc[b].token THEN NoCandidate ELSE @]
    OBVIOUS
  <1>3. IsLoop(lost) /\ lost.synced <= proc[b].synced
    BY <1>0, <1>2 DEF IsLoop, NoCandidate
  <1>4. \/ \E ok : EndPass(b, proc[b], ok)
        \/ \E ok : EndPass(b, lost, ok)
        \/ Continue(b, [proc[b] EXCEPT !.pc = "decide"])
        \/ Continue(b, [proc[b] EXCEPT !.pc = "decide", !.token = TRUE, !.cand = NoCandidate])
    BY <1>2 DEF Coordinate
  <1>5. CASE \E ok : EndPass(b, proc[b], ok)
    BY <1>0, <1>a, <1>1, <1>5, PassEnds
  <1>6. CASE \E ok : EndPass(b, lost, ok)
    BY <1>1, <1>3, <1>6, PassEnds
  <1>7. CASE Continue(b, [proc[b] EXCEPT !.pc = "decide"])
    <2>1. PICK q : q = [proc[b] EXCEPT !.pc = "decide"] OBVIOUS
    <2>2. IsLoop(q) /\ q.pc = "decide" /\ q.cur = proc[b].cur /\ q.synced <= proc[b].synced
      BY <1>0, <2>1 DEF IsLoop
    <2>3. proc' = [proc EXCEPT ![b] = q] BY <1>7, <2>1 DEF Continue
    <2> QED BY <1>0, <1>1, <2>2, <2>3, KnownDocuments, LoopMoves
  <1>8. CASE Continue(b, [proc[b] EXCEPT !.pc = "decide", !.token = TRUE,
                                         !.cand = NoCandidate])
    <2>1. PICK q : q = [proc[b] EXCEPT !.pc = "decide", !.token = TRUE,
                                       !.cand = NoCandidate] OBVIOUS
    <2>2. IsLoop(q) /\ q.pc = "decide" /\ q.cur = proc[b].cur /\ q.synced <= proc[b].synced
      BY <1>0, <2>1 DEF IsLoop, NoCandidate
    <2>3. proc' = [proc EXCEPT ![b] = q] BY <1>8, <2>1 DEF Continue
    <2> QED BY <1>0, <1>1, <2>2, <2>3, KnownDocuments, LoopMoves
  <1> QED BY <1>4, <1>5, <1>6, <1>7, <1>8

\* The coordinator's decision keeps the committed document, reloads it, or goes
\* on to repair the views from it.
LEMMA DecideLoops ==
    ASSUME LoopInv, NEW b \in Boots, Decide(b) PROVE LoopInv'
  <1>0. /\ IsLoop(proc[b]) /\ proc[b].pc = "decide" /\ proc[b].pos = 0
        /\ UNCHANGED <<doc, view>>
    BY DEF LoopInv, LoopsOK, Decide, IsLoop
  <1>1. IsDocument(NoDocument) BY DEF IsDocument, NoDocument
  <1>2. Eligible \subseteq Boots BY DEF Eligible
  <1>3. PICK reload : reload = [proc[b] EXCEPT !.pc = "load", !.cur = NoDocument,
                                               !.seen = Eligible]
    OBVIOUS
  <1>4. PICK repair : repair = [proc[b] EXCEPT !.pc = "sync", !.cur = NoDocument,
                                               !.next = proc[b].cur]
    OBVIOUS
  <1>5. IsLoop(reload) /\ reload.pc = "load" /\ reload.synced = proc[b].synced
    BY <1>0, <1>1, <1>2, <1>3 DEF IsLoop
  <1>6. /\ IsLoop(repair) /\ repair.pc = "sync" /\ repair.synced = proc[b].synced
        /\ repair.next = proc[b].cur /\ repair.pos = 0
    BY <1>0, <1>1, <1>4 DEF IsLoop
  <1>7. PICK q : /\ proc' = [proc EXCEPT ![b] = q]
                 /\ \/ q = [reload EXCEPT !.cand = NoCandidate]
                    \/ q = reload
                    \/ q = repair
                    \/ q = [repair EXCEPT !.cand = [set |-> Eligible, known |-> TRUE,
                                                    elapsed |-> FALSE]]
    BY <1>3, <1>4 DEF Decide, Continue
  <1>8. /\ IsLoop(q) /\ q.synced = proc[b].synced
        /\ \/ q.pc = "load"
           \/ q.pc = "sync" /\ q.next = proc[b].cur /\ q.pos = 0
    BY <1>5, <1>6, <1>7 DEF IsLoop, NoCandidate
  <1>9. proc[b].synced <= proc[b].synced BY <1>0 DEF IsLoop
  <1> QED BY <1>0, <1>7, <1>8, <1>9, KnownDocuments, LoopMoves

\* A candidate's stability window running out changes nothing a view relies on.
LEMMA WindowLoops ==
    ASSUME LoopInv, NEW b \in Boots, WindowElapses(b) PROVE LoopInv'
  <1>0. IsLoop(proc[b]) /\ UNCHANGED <<doc, view>> BY DEF LoopInv, LoopsOK, WindowElapses
  <1>1. PICK q : q = [proc[b] EXCEPT !.cand = [proc[b].cand EXCEPT !.elapsed = TRUE]] OBVIOUS
  <1>2. proc' = [proc EXCEPT ![b] = q] BY <1>0, <1>1 DEF WindowElapses, IsLoop
  <1>3. /\ IsLoop(q) /\ q.pc = proc[b].pc /\ q.cur = proc[b].cur /\ q.next = proc[b].next
        /\ q.pos = proc[b].pos /\ q.synced <= proc[b].synced
    <2>1. PICK c : c = [proc[b].cand EXCEPT !.elapsed = TRUE] OBVIOUS
    <2>2. DOMAIN c = {"set", "known", "elapsed"}
      BY <1>0, <2>1 DEF IsLoop
    <2>3. q = [proc[b] EXCEPT !.cand = c] BY <1>1, <2>1
    <2> QED BY <1>0, <2>2, <2>3 DEF IsLoop
  <1> QED BY <1>0, <1>2, <1>3, KnownDocuments, LoopMoves

\* The reload takes the committed document, and plans the next version of it at
\* most.
LEMMA ReconcileLoops ==
    ASSUME LoopInv, NEW b \in Boots, Reconcile(b) PROVE LoopInv'
  <1>0. /\ IsLoop(proc[b]) /\ proc[b].pc = "load" /\ IsDocument(doc)
        /\ UNCHANGED <<doc, view>>
    BY DEF LoopInv, LoopsOK, Reconcile
  <1>1. PICK n : n = [version |-> doc.version + 1, eligible |-> proc[b].seen,
                      owners |-> Balanced(doc.owners, proc[b].seen)]
    OBVIOUS
  <1>2. IsDocument(n) BY <1>0, <1>1 DEF IsDocument, IsLoop
  <1>3. PICK q : /\ proc' = [proc EXCEPT ![b] = q]
                 /\ \/ q = [proc[b] EXCEPT !.pc = "sync", !.next = doc, !.seen = {}]
                    \/ q = [proc[b] EXCEPT !.pc = "cas", !.next = n, !.seen = {}]
    BY <1>1 DEF Reconcile, Continue
  <1>4. CASE q = [proc[b] EXCEPT !.pc = "sync", !.next = doc, !.seen = {}]
    <2>1. /\ IsLoop(q) /\ q.pc = "sync" /\ q.next = doc /\ q.pos = 0
          /\ q.synced <= proc[b].synced
      BY <1>0, <1>4 DEF IsLoop, IsDocument
    <2> QED BY <1>0, <1>3, <2>1, KnownDocuments, LoopMoves
  <1>5. CASE q = [proc[b] EXCEPT !.pc = "cas", !.next = n, !.seen = {}]
    <2>1. IsLoop(q) /\ q.pc = "cas" /\ q.synced <= proc[b].synced
      BY <1>0, <1>2, <1>5 DEF IsLoop, IsDocument
    <2> QED BY <1>0, <1>3, <2>1, LoopMoves
  <1> QED BY <1>3, <1>4, <1>5

\* A committed document is newer than every document anyone holds.
LEMMA CompareAndSetLoops ==
    ASSUME LoopInv, NEW b \in Boots, CompareAndSet(b) PROVE LoopInv'
  <1>0. IsLoop(proc[b]) /\ proc[b].pc = "cas" /\ view' = view
    BY DEF LoopInv, LoopsOK, CompareAndSet
  <1>1. proc[b].synced <= proc[b].synced BY <1>0 DEF IsLoop
  <1>2. CASE ~MayWrite(b, proc[b].next)
    BY <1>0, <1>1, <1>2, PassEnds DEF CompareAndSet
  <1>3. CASE MayWrite(b, proc[b].next)
    <2>1. doc' = proc[b].next /\ doc'.version = doc.version + 1
      BY <1>3 DEF CompareAndSet, MayWrite
    <2>2. PICK q : /\ proc' = [proc EXCEPT ![b] = q]
                   /\ \/ q = [proc[b] EXCEPT !.pc = "sync"]
                      \/ q = [Idle EXCEPT !.token = proc[b].token, !.synced = proc[b].synced,
                                          !.cand = proc[b].cand]
      BY <1>3 DEF CompareAndSet, Continue, EndPass
    <2>3. /\ IsLoop(q) /\ q.synced = proc[b].synced
          /\ \/ q.pc = "idle"
             \/ q.pc = "sync" /\ q.next = proc[b].next /\ q.pos = 0
      <3>1. CASE q = [proc[b] EXCEPT !.pc = "sync"] BY <1>0, <3>1 DEF IsLoop
      <3>2. CASE q = [Idle EXCEPT !.token = proc[b].token, !.synced = proc[b].synced,
                                  !.cand = proc[b].cand]
        BY <1>0, <3>2, PartitionAssumption DEF IsLoop, IsDocument, Idle, NoDocument, Partitions
      <3> QED BY <2>2, <3>1, <3>2
    <2>4. proc'[b] = q /\ \A c \in Boots \ {b} : proc'[c] = proc[c]
      BY <2>2 DEF LoopInv, LoopsOK
    <2>5. LoopsOK'
      BY <1>0, <2>1, <2>2, <2>3, <2>4 DEF LoopInv, LoopsOK, IsLoop, IsDocument
    <2>6. Known' \subseteq Known \cup {doc'}
      <3>1. Documents' \subseteq Documents \cup {doc'} BY <1>0 DEF Documents
      <3>2. \A c \in Boots \ {b} : Held(c)' = Held(c) BY <2>4 DEF Held
      <3>3. Held(b)' \subseteq {doc'} BY <2>1, <2>3, <2>4 DEF Held
      <3> QED BY <3>1, <3>2, <3>3 DEF Known
    <2>7. \A d \in Known : d.version \in Nat
      BY DEF Known, Documents, Held, LoopInv, LoopsOK, IsLoop, IsDocument
    <2>8. Committed'
      <3>1. doc.version \in Nat BY DEF LoopInv, LoopsOK, IsDocument
      <3>2. \A d \in Known : d.version < doc'.version
        BY <2>1, <2>7, <3>1 DEF LoopInv, Committed
      <3>3. \A d \in Known' : d.version <= doc'.version
        BY <2>1, <2>6, <2>7, <3>1, <3>2
      <3>4. ASSUME NEW d \in Known', NEW e \in Known', d.version = e.version PROVE d = e
        <4>1. CASE d \in Known /\ e \in Known BY <3>4, <4>1 DEF LoopInv, Committed
        <4>2. CASE d = doc' /\ e = doc' BY <4>2
        <4>3. CASE d \in Known /\ e = doc' BY <2>1, <2>7, <3>1, <3>2, <3>4, <4>3
        <4>4. CASE d = doc' /\ e \in Known BY <2>1, <2>7, <3>1, <3>2, <3>4, <4>4
        <4> QED BY <2>6, <4>1, <4>2, <4>3, <4>4
      <3> QED BY <3>3, <3>4 DEF Committed
    <2>9. Projecting'
      <3> SUFFICES ASSUME NEW c \in Boots, NEW p \in Partitions,
                          proc'[c].pc = "sync", p < proc'[c].pos
                   PROVE  view[p].version >= proc'[c].next.version
        BY <1>0 DEF Projecting
      <3>1. p \in Int /\ p >= 0 BY PartitionAssumption DEF Partitions
      <3> QED BY <2>3, <2>4, <3>1 DEF LoopInv, Projecting
    <2>10. CacheIsProof' BY <1>0, <2>3, <2>4 DEF LoopInv, CacheIsProof
    <2> QED BY <2>5, <2>8, <2>9, <2>10 DEF LoopInv
  <1> QED BY <1>2, <1>3

\* A view takes a document only from a projection, and only a newer one.
LEMMA ProjectedNewer ==
    ASSUME LoopInv, NEW b \in Boots, SyncViews(b), NEW p \in Partitions
    PROVE  /\ view'[p] \in {view[p], proc[b].next}
           /\ view'[p].version >= view[p].version
           /\ view'[proc[b].pos].version >= proc[b].next.version \/ view' = view
  <1>1. /\ view[p].version \in Nat /\ proc[b].next.version \in Nat
        /\ proc[b].pos \in Partitions /\ view[proc[b].pos].version \in Nat
    BY DEF LoopInv, LoopsOK, IsLoop, IsDocument
  <1>2. CASE view' = view BY <1>1, <1>2
  <1>3. CASE view' = [view EXCEPT ![proc[b].pos] = Projected(@, proc[b].next)]
    BY <1>1, <1>3 DEF LoopInv, LoopsOK, Projected
  <1> QED BY <1>2, <1>3 DEF SyncViews

\* The projection: the cached version is stored once every view has reached it.
LEMMA SyncViewsLoops ==
    ASSUME LoopInv, NEW b \in Boots, SyncViews(b) PROVE LoopInv'
  <1> DEFINE p == proc[b]
  <1>0. IsLoop(p) /\ p.pc = "sync" /\ p.pos \in Partitions /\ doc' = doc
    BY DEF LoopInv, LoopsOK, SyncViews, IsLoop
  <1>1. p.synced <= p.synced BY <1>0 DEF IsLoop
  <1>2. CASE p.pos = 0 /\ p.synced = p.next.version
    BY <1>0, <1>1, <1>2, PassEnds DEF SyncViews
  <1>3. CASE ~(p.pos = 0 /\ p.synced = p.next.version)
    <2>1. PICK after : after = [p EXCEPT !.synced = Cached(p)] OBVIOUS
    <2>2. PICK q : /\ proc' = [proc EXCEPT ![b] = q]
                   /\ \/ /\ LastView(p.pos)
                         /\ q = [Idle EXCEPT !.token = after.token, !.synced = after.synced,
                                             !.cand = after.cand]
                      \/ /\ ~LastView(p.pos)
                         /\ q = [after EXCEPT !.pos = @ + 1]
      BY <1>3, <2>1 DEF SyncViews, EndPass, Continue
    <2>3. /\ DOMAIN view' = Partitions
          /\ \A k \in Partitions : /\ view'[k] \in {view[k], p.next}
                                   /\ view'[k].version >= view[k].version
          /\ view'[p.pos].version >= p.next.version
      <3>1. view' = [view EXCEPT ![p.pos] = Projected(@, p.next)]
        BY <1>3 DEF SyncViews
      <3>2. /\ view[p.pos].version \in Nat /\ p.next.version \in Nat
            /\ DOMAIN view = Partitions
        BY <1>0 DEF LoopInv, LoopsOK, IsLoop, IsDocument
      <3>3. view'[p.pos].version >= p.next.version
        BY <1>0, <3>1, <3>2 DEF Projected
      <3> QED BY <1>0, <3>1, <3>2, <3>3, ProjectedNewer
    <2>4. \A k \in Partitions : view'[k].version \in Nat /\ view[k].version \in Nat
                                /\ p.next.version \in Nat /\ p.synced \in Nat
      BY <1>0, <2>3 DEF LoopInv, LoopsOK, IsLoop, IsDocument
    <2>5. /\ IsLoop(q)
          /\ \/ /\ q.pc = "idle" /\ LastView(p.pos) /\ q.synced = p.next.version
             \/ /\ q.pc = "sync" /\ q.pos = p.pos + 1 /\ q.next = p.next
                /\ q.synced = p.synced
      <3>1. IsLoop(after) /\ after.pos = p.pos /\ after.next = p.next /\ after.pc = "sync"
            /\ after.synced = Cached(p)
        BY <1>0, <2>1, <2>4 DEF IsLoop, IsDocument, Cached
      <3>2. CASE /\ LastView(p.pos)
                 /\ q = [Idle EXCEPT !.token = after.token, !.synced = after.synced,
                                     !.cand = after.cand]
        BY <3>1, <3>2, PartitionAssumption
        DEF IsLoop, IsDocument, Idle, NoDocument, Partitions, Cached
      <3>3. CASE ~LastView(p.pos) /\ q = [after EXCEPT !.pos = @ + 1]
        <4>1. p.pos + 1 \in Partitions
          BY <1>0, <3>3, PartitionAssumption DEF Partitions, LastView
        <4> QED BY <3>1, <3>3, <4>1 DEF IsLoop, Cached
      <3> QED BY <2>2, <3>2, <3>3
    <2>6. proc'[b] = q /\ \A c \in Boots \ {b} : proc'[c] = proc[c]
      BY <2>2 DEF LoopInv, LoopsOK
    <2>7. LoopsOK'
      BY <1>0, <2>2, <2>3, <2>5, <2>6 DEF LoopInv, LoopsOK, IsLoop, IsDocument
    <2>8. Committed'
      <3>1. p.next \in Known BY <1>0, KnownDocuments
      <3>2. Documents' \subseteq Known
        BY <1>0, <2>3, <3>1, KnownDocuments DEF Documents
      <3>3. \A c \in Boots \ {b} : Held(c)' = Held(c) BY <2>6 DEF Held
      <3>4. Held(b)' \subseteq Known BY <2>5, <2>6, <3>1 DEF Held
      <3>5. Known' \subseteq Known BY <3>2, <3>3, <3>4 DEF Known
      <3> QED BY <1>0, <3>5 DEF LoopInv, Committed
    <2>9. \A k \in Partitions : k <= p.pos => view'[k].version >= p.next.version
      <3> SUFFICES ASSUME NEW k \in Partitions, k <= p.pos
                   PROVE  view'[k].version >= p.next.version
        OBVIOUS
      <3>1. k \in Int /\ p.pos \in Int BY <1>0, PartitionAssumption DEF Partitions
      <3>2. CASE k = p.pos BY <2>3, <3>2
      <3>3. CASE k < p.pos
        <4>1. view[k].version >= p.next.version BY <1>0, <3>3 DEF LoopInv, Projecting
        <4> QED BY <2>3, <2>4, <4>1
      <3> QED BY <3>1, <3>2, <3>3
    <2>10. Projecting'
      <3> SUFFICES ASSUME NEW c \in Boots, NEW k \in Partitions,
                          proc'[c].pc = "sync", k < proc'[c].pos
                   PROVE  view'[k].version >= proc'[c].next.version
        BY DEF Projecting
      <3>1. k \in Int /\ p.pos \in Int BY <1>0, PartitionAssumption DEF Partitions
      <3>2. CASE c = b BY <2>5, <2>6, <2>9, <3>1, <3>2
      <3>3. CASE c # b
        <4>1. view[k].version >= proc[c].next.version
          BY <2>6, <3>3 DEF LoopInv, Projecting
        <4>2. proc[c].next.version \in Nat BY DEF LoopInv, LoopsOK, IsLoop, IsDocument
        <4> QED BY <2>3, <2>4, <2>6, <3>3, <4>1, <4>2
      <3> QED BY <3>2, <3>3
    <2>11. CacheIsProof'
      <3> SUFFICES ASSUME NEW c \in Boots, NEW k \in Partitions
                   PROVE  view'[k].version >= proc'[c].synced
        BY DEF CacheIsProof
      <3>1. view[k].version >= proc[c].synced /\ proc[c].synced \in Nat
        BY DEF LoopInv, CacheIsProof, LoopsOK, IsLoop
      <3>2. CASE c = b /\ q.pc = "idle"
        <4>1. k <= p.pos
          BY <1>0, <2>5, <3>2, PartitionAssumption DEF Partitions, LastView
        <4> QED BY <2>5, <2>6, <2>9, <3>2, <4>1
      <3>3. CASE c = b /\ q.pc = "sync" BY <2>3, <2>4, <2>5, <2>6, <3>1, <3>3
      <3>4. CASE c # b BY <2>3, <2>4, <2>6, <3>1, <3>4
      <3> QED BY <2>5, <3>2, <3>3, <3>4
    <2> QED BY <2>7, <2>8, <2>10, <2>11 DEF LoopInv
  <1> QED BY <1>2, <1>3

\* A stopped task's loop is gone, and a released token was its own.
LEMMA StopLoops ==
    ASSUME LoopInv, NEW b \in Boots, UNCHANGED <<doc, view>>,
           Stop(b) \/ proc' = [proc EXCEPT ![b].token = FALSE]
    PROVE  LoopInv'
  <1>0. IsLoop(proc[b]) BY DEF LoopInv, LoopsOK
  <1>1. CASE Stop(b)
    <2>1. IsLoop(Idle) /\ Idle.pc = "idle" /\ Idle.synced <= proc[b].synced
      BY <1>0, PartitionAssumption
      DEF IsLoop, IsDocument, Idle, NoDocument, NoCandidate, Partitions
    <2>2. proc' = [proc EXCEPT ![b] = Idle] BY <1>1 DEF Stop
    <2> QED BY <2>1, <2>2, LoopMoves
  <1>2. CASE proc' = [proc EXCEPT ![b].token = FALSE]
    <2>1. PICK q : q = [proc[b] EXCEPT !.token = FALSE] OBVIOUS
    <2>2. proc' = [proc EXCEPT ![b] = q] BY <1>2, <2>1
    <2>3. /\ IsLoop(q) /\ q.pc = proc[b].pc /\ q.cur = proc[b].cur /\ q.next = proc[b].next
          /\ q.pos = proc[b].pos /\ q.synced <= proc[b].synced
      BY <1>0, <2>1 DEF IsLoop
    <2> QED BY <2>2, <2>3, KnownDocuments, LoopMoves
  <1> QED BY <1>1, <1>2

\* What leaves the loops, the document and the views alone.
LEMMA LoopsFrame ==
    ASSUME LoopInv, UNCHANGED <<doc, view, proc>> PROVE LoopInv'
  <1>1. Known' = Known
    <2>1. Documents' = Documents BY DEF Documents
    <2>2. \A c \in Boots : Held(c)' = Held(c) BY DEF Held
    <2> QED BY <2>1, <2>2 DEF Known
  <1> QED BY <1>1 DEF LoopInv, LoopsOK, IsDocument, IsLoop, Committed, Projecting, CacheIsProof

-----------------------------------------------------------------------------
(* The tasks and their membership.                                         *)

\* A request that runs leaves an announcement standing, and one that announces
\* was sent by a task that drains.
LEMMA HeartbeatRuns ==
    ASSUME TaskInv, NEW b \in Boots, beat[b] # "none", RunHeartbeat(b),
           beat' = [beat EXCEPT ![b] = "none"], UNCHANGED drain,
           \E next \in {"active", "warming"} : Transition(b, next)
    PROVE  /\ member' \in [Boots -> Lives] /\ beat' \in [Boots -> Lives \ {"tombstone"}]
           /\ state' \in [Boots -> {"warming", "active", "draining", "off"}]
           /\ announced' \subseteq Boots
           /\ Retirement' /\ NoResurrection'
  <1>1. member' = [member EXCEPT ![b] = Heartbeat(b, beat[b])] BY DEF RunHeartbeat
  <1>2. PICK next \in {"active", "warming"} :
            state' = [state EXCEPT ![b] = IF @ \in {"draining", "off"} THEN @ ELSE next]
    BY DEF Transition
  <1>3. Heartbeat(b, beat[b]) \in Lives
    BY DEF Heartbeat, TaskInv, TasksOK, Lives
  <1>4. /\ member' \in [Boots -> Lives] /\ beat' \in [Boots -> Lives \ {"tombstone"}]
        /\ state' \in [Boots -> {"warming", "active", "draining", "off"}]
        /\ announced' \subseteq Boots
    BY <1>1, <1>2, <1>3 DEF TaskInv, TasksOK, Lives, RunHeartbeat
  <1>5. member'[b] = Heartbeat(b, beat[b]) /\ \A c \in Boots \ {b} : member'[c] = member[c]
    BY <1>1 DEF TaskInv, TasksOK
  <1>6. beat'[b] = "none" /\ \A c \in Boots \ {b} : beat'[c] = beat[c]
    BY DEF TaskInv, TasksOK
  <1>7. \A c \in Boots : \/ state'[c] = state[c]
                         \/ state[c] \notin {"draining", "off"}
    BY <1>2 DEF TaskInv, TasksOK
  <1>8. \A c \in Boots :
            c \in announced'
            <=> (c \in announced \/ (c = b /\ member'[b] \in {"draining", "tombstone"}))
    <2>1. announced' = announced \cup {c \in {b} : member'[c] \in {"draining", "tombstone"}}
      BY DEF RunHeartbeat
    <2> QED BY <2>1
  <1>9. Retirement'
    <2> SUFFICES ASSUME NEW c \in Boots
                 PROVE  /\ drain'[c] # "no" => state'[c] \in {"draining", "off"}
                        /\ beat'[c] = "draining" => state'[c] \in {"draining", "off"}
                        /\ c \in announced' => state'[c] \in {"draining", "off"}
                        /\ member'[c] \in {"draining", "tombstone"} => c \in announced'
                        /\ c \in announced' /\ beat'[c] \in {"active", "warming"}
                              => member'[c] \in {"draining", "tombstone"}
      BY DEF Retirement
    <2>1. CASE c # b
      BY <1>5, <1>6, <1>7, <1>8, <2>1 DEF TaskInv, TasksOK, Retirement
    <2>2. CASE c = b
      BY <1>5, <1>6, <1>7, <1>8, <2>2 DEF TaskInv, TasksOK, Retirement, Heartbeat
    <2> QED BY <2>1, <2>2
  <1>10. NoResurrection'
    <2> SUFFICES ASSUME NEW c \in announced' PROVE member'[c] \notin {"active", "warming"}
      BY DEF NoResurrection
    <2>1. c \in Boots BY <1>4
    <2>2. CASE c # b BY <1>5, <1>8, <2>1, <2>2 DEF TaskInv, NoResurrection
    <2>3. CASE c = b
      BY <1>5, <1>8, <2>3 DEF TaskInv, TasksOK, Lives, NoResurrection, Retirement, Heartbeat
    <2> QED BY <2>2, <2>3
  <1> QED BY <1>4, <1>9, <1>10

\* A heartbeat carries draining exactly when its task drains.
LEMMA SendHeartbeatTasks ==
    ASSUME TaskInv, NEW b \in Boots, SendHeartbeat(b) PROVE TaskInv'
  <1>1. PICK life \in {"draining", "active", "warming"} :
            /\ beat' = [beat EXCEPT ![b] = life]
            /\ life = "draining" <=> state[b] = "draining"
    BY DEF SendHeartbeat
  <1>2. \/ state' = state
        \/ state' = [state EXCEPT ![b] = IF @ \in {"draining", "off"} THEN @ ELSE "warming"]
    BY DEF SendHeartbeat, Transition
  <1>3. UNCHANGED <<member, coord, drain, faults, announced>> /\ state[b] # "off"
    BY DEF SendHeartbeat
  <1>4. TasksOK' BY <1>1, <1>2, <1>3 DEF TaskInv, TasksOK, Lives
  <1>5. Retirement' BY <1>1, <1>2, <1>3 DEF TaskInv, TasksOK, Retirement
  <1> QED BY <1>3, <1>4, <1>5 DEF TaskInv, NoResurrection

\* A heartbeat that lands, in time or late, never replaces a tombstone or takes
\* back a draining record.
LEMMA HeartbeatTasks ==
    ASSUME TaskInv, NEW b \in Boots, HeartbeatDone(b) \/ HeartbeatFails(b)
    PROVE  TaskInv'
  <1>1. CASE HeartbeatDone(b)
    <2>1. \E next \in {"active", "warming"} : Transition(b, next) BY <1>1 DEF HeartbeatDone
    <2>2. /\ beat[b] # "none" /\ RunHeartbeat(b) /\ beat' = [beat EXCEPT ![b] = "none"]
          /\ UNCHANGED <<coord, drain, faults>>
      BY <1>1 DEF HeartbeatDone
    <2> QED BY <2>1, <2>2, HeartbeatRuns DEF TaskInv, TasksOK
  <1>2. CASE HeartbeatFails(b)
    <2>1. /\ faults' \in 0 .. MaxFaults /\ beat[b] # "none" /\ Transition(b, "warming")
          /\ UNCHANGED <<coord, drain>>
      BY <1>2, ControlAssumption DEF HeartbeatFails, Fault, TaskInv, TasksOK
    <2>2. CASE RunHeartbeat(b) /\ beat' = [beat EXCEPT ![b] = "none"]
      BY <2>1, <2>2, HeartbeatRuns DEF TaskInv, TasksOK
    <2>3. CASE UNCHANGED <<member, announced>> /\ beat' \in {beat, [beat EXCEPT ![b] = "none"]}
      <3>1. TasksOK' BY <2>1, <2>3 DEF TaskInv, TasksOK, Transition, Lives
      <3>2. Retirement' BY <2>1, <2>3 DEF TaskInv, TasksOK, Transition, Retirement
      <3> QED BY <2>3, <3>1, <3>2 DEF TaskInv, NoResurrection
    <2> QED BY <1>2, <2>2, <2>3 DEF HeartbeatFails
  <1> QED BY <1>1, <1>2

\* A membership record runs out, or is evicted, only with no heartbeat in
\* flight.
LEMMA MemberTasks ==
    ASSUME TaskInv, NEW b \in Boots, MemberExpires(b) \/ MemberLost(b) PROVE TaskInv'
  <1>1. /\ member' = [member EXCEPT ![b] = "none"] /\ beat[b] = "none"
        /\ UNCHANGED <<coord, state, beat, drain, announced>>
    BY DEF MemberExpires, MemberLost
  <1>2. faults' \in 0 .. MaxFaults
    BY ControlAssumption DEF MemberExpires, MemberLost, Fault, TaskInv, TasksOK
  <1>3. TasksOK' BY <1>1, <1>2 DEF TaskInv, TasksOK, Lives
  <1>4. Retirement' BY <1>1 DEF TaskInv, TasksOK, Retirement
  <1>5. NoResurrection' BY <1>1 DEF TaskInv, TasksOK, NoResurrection
  <1> QED BY <1>3, <1>4, <1>5 DEF TaskInv

\* Demotion spares a task that drains or has stopped.
LEMMA TickTasks ==
    ASSUME TaskInv, NEW b \in Boots, Tick(b) PROVE TaskInv'
  <1>1. \/ state' = state
        \/ state' = [state EXCEPT ![b] = IF @ \in {"draining", "off"} THEN @ ELSE "warming"]
    BY DEF Tick, Transition
  <1>2. UNCHANGED <<member, coord, beat, drain, faults, announced>> BY DEF Tick
  <1>3. TasksOK' BY <1>1, <1>2 DEF TaskInv, TasksOK
  <1>4. Retirement' BY <1>1, <1>2 DEF TaskInv, TasksOK, Retirement
  <1> QED BY <1>2, <1>3, <1>4 DEF TaskInv, NoResurrection

\* Draining, its announcement, the release and the end of a task.
LEMMA StoppingTasks ==
    ASSUME TaskInv, NEW b \in Boots,
           \/ BeginDraining(b) \/ Announce(b) \/ ReleaseCoordinator(b)
           \/ FinishDrain(b) \/ Crash(b)
    PROVE  TaskInv'
  <1>1. CASE BeginDraining(b)
    <2>1. TasksOK' BY <1>1 DEF TaskInv, TasksOK, BeginDraining
    <2>2. Retirement' BY <1>1 DEF TaskInv, TasksOK, BeginDraining, Retirement
    <2> QED BY <1>1, <2>1, <2>2 DEF TaskInv, NoResurrection, BeginDraining
  <1>2. CASE Announce(b)
    <2>0. Heartbeat(b, "draining") \in {"draining", "tombstone"} BY DEF Heartbeat
    <2>1. faults' \in 0 .. MaxFaults
      BY <1>2, ControlAssumption DEF TaskInv, TasksOK, Announce, Fault
    <2>2. /\ \/ /\ member' = [member EXCEPT ![b] = Heartbeat(b, "draining")]
                /\ announced' = announced \cup {b}
             \/ UNCHANGED <<member, announced>>
          /\ drain[b] = "announce" /\ drain' = [drain EXCEPT ![b] = "release"]
          /\ UNCHANGED <<coord, state, beat>>
      BY <1>2 DEF Announce
    <2>3. TasksOK' BY <2>0, <2>1, <2>2 DEF TaskInv, TasksOK, Lives
    <2>4. Retirement' BY <2>0, <2>2 DEF TaskInv, TasksOK, Retirement
    <2>5. NoResurrection' BY <2>0, <2>2 DEF TaskInv, TasksOK, NoResurrection
    <2> QED BY <2>3, <2>4, <2>5 DEF TaskInv
  <1>3. CASE ReleaseCoordinator(b)
    <2>1. faults' \in 0 .. MaxFaults
      BY <1>3, ControlAssumption DEF TaskInv, TasksOK, ReleaseCoordinator, Fault
    <2>2. /\ drain[b] = "release" /\ drain' = [drain EXCEPT ![b] = "wait"]
          /\ coord' \in {coord, Nobody} /\ UNCHANGED <<member, state, beat, announced>>
      BY <1>3 DEF ReleaseCoordinator
    <2>3. TasksOK' BY <2>1, <2>2 DEF TaskInv, TasksOK
    <2>4. Retirement' BY <2>2 DEF TaskInv, TasksOK, Retirement
    <2> QED BY <2>2, <2>3, <2>4 DEF TaskInv, NoResurrection
  <1>4. CASE FinishDrain(b)
    <2>1. /\ \/ /\ member' = [member EXCEPT ![b] = "tombstone"]
                /\ announced' = announced \cup {b}
             \/ UNCHANGED <<member, announced>>
          /\ state' = [state EXCEPT ![b] = "off"] /\ drain' = [drain EXCEPT ![b] = "done"]
          /\ UNCHANGED <<coord, beat, faults>>
      BY <1>4 DEF FinishDrain, Stop
    <2>2. TasksOK' BY <2>1 DEF TaskInv, TasksOK, Lives
    <2>3. Retirement' BY <2>1 DEF TaskInv, TasksOK, Retirement
    <2>4. NoResurrection' BY <2>1 DEF TaskInv, TasksOK, NoResurrection
    <2> QED BY <2>2, <2>3, <2>4 DEF TaskInv
  <1>5. CASE Crash(b)
    <2>1. /\ state' = [state EXCEPT ![b] = "off"] /\ drain' = [drain EXCEPT ![b] = "done"]
          /\ UNCHANGED <<member, coord, beat, faults, announced>>
      BY <1>5 DEF Crash, Stop
    <2>2. TasksOK' BY <2>1 DEF TaskInv, TasksOK
    <2>3. Retirement' BY <2>1 DEF TaskInv, TasksOK, Retirement
    <2> QED BY <2>1, <2>2, <2>3 DEF TaskInv, NoResurrection
  <1> QED BY <1>1, <1>2, <1>3, <1>4, <1>5

\* What changes neither a task's membership nor its state.
LEMMA TasksFrame ==
    ASSUME TaskInv, UNCHANGED <<member, state, beat, drain, announced>>,
           coord' \in Boots \cup {Nobody, Orphan}, faults' \in 0 .. MaxFaults
    PROVE  TaskInv'
  BY DEF TaskInv, TasksOK, Retirement, NoResurrection

-----------------------------------------------------------------------------
(* The theorems.                                                           *)

\* Before the first boot there is nothing to agree on.
LEMMA InitInv == Init => Inv
  <1> SUFFICES ASSUME Init PROVE Inv OBVIOUS
  <1>1. 0 \in Partitions BY PartitionAssumption DEF Partitions
  <1>2. TasksOK BY ControlAssumption DEF Init, TasksOK, Lives, Nobody
  <1>3. Retirement /\ NoResurrection BY DEF Init, Retirement, NoResurrection
  <1>4. LoopsOK
    BY <1>1 DEF Init, LoopsOK, IsDocument, IsLoop, NoDocument, Idle, NoCandidate
  <1>5. \A d \in Known : d = NoDocument
    BY DEF Known, Held, Documents, Init, Idle
  <1>6. Committed
    <2>1. doc = NoDocument /\ NoDocument.version = 0 BY DEF Init, NoDocument
    <2> QED BY <1>5, <2>1 DEF Committed
  <1>7. Projecting /\ CacheIsProof
    BY DEF Projecting, CacheIsProof, Init, Idle, NoDocument
  <1> QED BY <1>2, <1>3, <1>4, <1>6, <1>7 DEF Inv, TaskInv, LoopInv

\* Every step keeps the membership half of the invariant.
LEMMA TaskStep == ASSUME Inv, [Next]_vars PROVE TaskInv'
  <1>0. TaskInv /\ LoopInv BY DEF Inv
  <1>1. ASSUME UNCHANGED <<member, state, beat, drain, announced>>,
               coord' \in Boots \cup {Nobody, Orphan}, faults' = faults \/ Fault
        PROVE  TaskInv'
    <2>1. faults' \in 0 .. MaxFaults
      BY <1>0, <1>1, ControlAssumption DEF TaskInv, TasksOK, Fault
    <2> QED BY <1>0, <1>1, <2>1, TasksFrame
  <1>2. coord \in Boots \cup {Nobody, Orphan} BY <1>0 DEF TaskInv, TasksOK
  <1>3. CASE UNCHANGED vars BY <1>1, <1>2, <1>3 DEF vars
  <1>4. CASE CoordinatorExpires \/ CoordinatorLost
    BY <1>1, <1>4 DEF CoordinatorExpires, CoordinatorLost
  <1>5. ASSUME NEW b \in Boots, ReadinessChanges(b) PROVE TaskInv'
    BY <1>1, <1>2, <1>5 DEF ReadinessChanges
  <1>6. ASSUME NEW b \in Boots, Coordinate(b) PROVE TaskInv'
    BY <1>1, <1>2, <1>6 DEF Coordinate
  <1>7. ASSUME NEW b \in Boots,
               Decide(b) \/ Reconcile(b) \/ CompareAndSet(b) \/ SyncViews(b)
        PROVE  TaskInv'
    BY <1>1, <1>2, <1>7 DEF Decide, Reconcile, CompareAndSet, SyncViews
  <1>8. ASSUME NEW b \in Boots, WindowElapses(b) \/ PassFails(b) PROVE TaskInv'
    BY <1>1, <1>2, <1>8 DEF WindowElapses, PassFails
  <1>9. ASSUME NEW b \in Boots, SendHeartbeat(b) \/ HeartbeatDone(b) \/ HeartbeatFails(b)
        PROVE  TaskInv'
    BY <1>0, <1>9, SendHeartbeatTasks, HeartbeatTasks
  <1>10. ASSUME NEW b \in Boots, MemberExpires(b) \/ MemberLost(b) \/ Tick(b)
         PROVE  TaskInv'
    BY <1>0, <1>10, MemberTasks, TickTasks
  <1>11. ASSUME NEW b \in Boots, BeginDraining(b) \/ Drain(b) \/ Crash(b) PROVE TaskInv'
    BY <1>0, <1>11, StoppingTasks DEF Drain
  <1> QED
    BY <1>3, <1>4, <1>5, <1>6, <1>7, <1>8, <1>9, <1>10, <1>11 DEF Next, Control

\* Every step keeps the document half of the invariant.
LEMMA LoopStep == ASSUME Inv, [Next]_vars PROVE LoopInv'
  <1>0. LoopInv BY DEF Inv
  <1>1. CASE UNCHANGED vars BY <1>0, <1>1, LoopsFrame DEF vars
  <1>2. CASE CoordinatorExpires \/ CoordinatorLost
    BY <1>0, <1>2, LoopsFrame DEF CoordinatorExpires, CoordinatorLost
  <1>3. ASSUME NEW b \in Boots,
               \/ SendHeartbeat(b) \/ HeartbeatDone(b) \/ HeartbeatFails(b)
               \/ MemberExpires(b) \/ MemberLost(b) \/ ReadinessChanges(b)
        PROVE  LoopInv'
    BY <1>0, <1>3, LoopsFrame
    DEF SendHeartbeat, HeartbeatDone, HeartbeatFails, MemberExpires, MemberLost,
        ReadinessChanges
  <1>4. ASSUME NEW b \in Boots, Control(b) PROVE LoopInv'
    BY <1>0, <1>4, TickLoops, CoordinateLoops, DecideLoops, ReconcileLoops,
       CompareAndSetLoops, SyncViewsLoops DEF Control
  <1>5. ASSUME NEW b \in Boots, WindowElapses(b) PROVE LoopInv'
    BY <1>0, <1>5, WindowLoops
  <1>6. ASSUME NEW b \in Boots, PassFails(b) PROVE LoopInv'
    <2>1. IsLoop(proc[b]) BY <1>0 DEF LoopInv, LoopsOK
    <2>2. proc[b].synced <= proc[b].synced BY <2>1 DEF IsLoop
    <2>3. EndPass(b, proc[b], FALSE) /\ UNCHANGED <<doc, view>> BY <1>6 DEF PassFails
    <2> QED BY <1>0, <2>1, <2>2, <2>3, PassEnds
  <1>7. ASSUME NEW b \in Boots, BeginDraining(b) \/ Announce(b) PROVE LoopInv'
    BY <1>0, <1>7, LoopsFrame DEF BeginDraining, Announce
  <1>8. ASSUME NEW b \in Boots, ReleaseCoordinator(b) \/ FinishDrain(b) \/ Crash(b)
        PROVE  LoopInv'
    BY <1>0, <1>8, StopLoops DEF ReleaseCoordinator, FinishDrain, Crash
  <1> QED
    BY <1>1, <1>2, <1>3, <1>4, <1>5, <1>6, <1>7, <1>8 DEF Next, Drain

\* The invariant, along every behaviour of the control plane.
THEOREM ControlInvariant == Spec => []Inv
  <1>1. Inv /\ [Next]_vars => Inv' BY TaskStep, LoopStep DEF Inv
  <1> QED BY InitInv, <1>1, PTL DEF Spec

\* No request still in flight makes a boot eligible again once it announced
\* DRAINING or was retired: the heartbeat script of cluster_membership.rs keeps
\* the announcement, and a task that drains sends nothing else.
THEOREM NeverResurrected == Spec => []NoResurrection
  <1>1. Inv => NoResurrection BY DEF Inv, TaskInv
  <1> QED BY <1>1, ControlInvariant, PTL

\* The cached version by which sync_partition_views skips a projection is a
\* proof that every view has reached that version.
THEOREM CacheProvesViews == Spec => []CacheIsProof
  <1>1. Inv => CacheIsProof BY DEF Inv, LoopInv
  <1> QED BY <1>1, ControlInvariant, PTL

\* The invariant contains the module's own.
LEMMA InvImpliesCommitted == Inv => TypeOK /\ ViewsAreCommitted
  <1> SUFFICES ASSUME Inv PROVE TypeOK /\ ViewsAreCommitted OBVIOUS
  <1>1. TypeOK
    <2>1. \A d \in Documents : d.version \in Nat /\ d.eligible \subseteq Boots
      BY DEF Documents, Inv, LoopInv, LoopsOK, IsDocument
    <2>2. \A b \in Boots : /\ proc[b].pc \in {"idle", "lease", "decide", "load", "cas", "sync"}
                           /\ proc[b].pos \in Partitions
      BY DEF Inv, LoopInv, LoopsOK, IsLoop
    <2> QED BY <2>1, <2>2 DEF TypeOK, Inv, TaskInv, TasksOK, Lives
  <1>2. ViewsAreCommitted
    <2>1. Documents \cup {proc[b].next : b \in {c \in Boots : proc[c].pc = "sync"}}
              \subseteq Known
      BY KnownDocuments DEF Documents
    <2>2. \A p \in Partitions : view[p].version <= doc.version
      BY KnownDocuments DEF Inv, LoopInv, Committed
    <2> QED BY <2>1, <2>2 DEF ViewsAreCommitted, Inv, LoopInv, Committed
  <1> QED BY <1>1, <1>2

\* No step takes the document or a view back to an older version.
LEMMA StepNeverRollsBack ==
    ASSUME Inv, [Next]_vars
    PROVE  [/\ doc'.version >= doc.version
            /\ \A p \in Partitions : view'[p].version >= view[p].version]_vars
  <1>0. LoopInv /\ doc.version \in Nat /\ \A p \in Partitions : view[p].version \in Nat
    BY DEF Inv, LoopInv, LoopsOK, IsDocument
  <1>1. CASE UNCHANGED <<doc, view>> BY <1>0, <1>1
  <1>2. ASSUME NEW b \in Boots, CompareAndSet(b)
        PROVE  /\ doc'.version >= doc.version
               /\ \A p \in Partitions : view'[p].version >= view[p].version
    <2>1. view' = view BY <1>2 DEF CompareAndSet
    <2>2. doc' = doc \/ doc'.version = doc.version + 1
      BY <1>2 DEF CompareAndSet, MayWrite
    <2> QED BY <1>0, <2>1, <2>2
  <1>3. ASSUME NEW b \in Boots, SyncViews(b)
        PROVE  /\ doc'.version >= doc.version
               /\ \A p \in Partitions : view'[p].version >= view[p].version
    <2>1. doc' = doc BY <1>3 DEF SyncViews
    <2> QED BY <1>0, <1>3, <2>1, ProjectedNewer
  <1> QED
    BY <1>1, <1>2, <1>3
    DEF Next, Control, Drain, vars, SendHeartbeat, HeartbeatDone, HeartbeatFails,
        MemberExpires, MemberLost, ReadinessChanges, Tick, Coordinate, Decide, Reconcile,
        WindowElapses, PassFails, BeginDraining, Announce, ReleaseCoordinator, FinishDrain,
        Crash, CoordinatorExpires, CoordinatorLost

\* However late a superseded coordinator acts: a view shows only committed
\* documents, a version is one document, and neither the document nor a view
\* ever goes back (compare_and_set and project of partition_assignment.rs).
THEOREM ViewsFollowCommits == Spec => ViewsInOrder
  <1>1. Spec => [](TypeOK /\ ViewsAreCommitted)
    BY InvImpliesCommitted, ControlInvariant, PTL
  <1>2. Spec => NoRollback
    BY StepNeverRollsBack, ControlInvariant, PTL DEF Spec, NoRollback
  <1> QED BY <1>1, <1>2 DEF ViewsInOrder

====
