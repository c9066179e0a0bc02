--------------------------- MODULE AnalyticsExport --------------------------
(***************************************************************************)
(* The regional analytics exporter (analytics/flusher.rs,                   *)
(* exporter_service.rs, exporter.rs, batch.rs, object_store.rs): the stream *)
(* is drained through a consumer group into objects whose keys are derived  *)
(* from the batch, and a batch is acknowledged once its objects are written.*)
(*                                                                         *)
(* A host takes the exclusion lease over from one that may not know it yet. *)
(* An entry is its position in the stream; an object's key is its host,     *)
(* date and entries, which its cursors and content hash stand for.          *)
(***************************************************************************)
EXTENDS Integers, FiniteSets, FiniteSetsExt

CONSTANTS Hosts,
          Last,           \* bound: entries the flusher adds
          Dates,          \* entry -> the dates of the events it carries
          ReadCount,      \* READ_COUNT
          MaxLen,         \* FlusherConfig.maxlen
          PoisonThreshold,
          MaxTerms,       \* bound: times the lease is taken
          MaxFaults       \* bound: failed writes and acknowledgements, crashes

VARIABLES
  stream,   \* its last entry, and the last one trimmed
  group,    \* the consumer group: last entry delivered, pending entries and the idle ones
  exp,      \* host -> its exporter
  objects,  \* the objects in the bucket
  dropped,  \* entries discarded and counted
  lapsed,   \* history: entries trimmed before they were read, or claimed again
  used      \* bounds used

vars == <<stream, group, exp, objects, dropped, lapsed, used>>

(* at: the step it is at; batch: the entries in hand; files: the objects still to
   write; sig, fails: the PoisonTracker. *)
Off == [at |-> "off", batch |-> {}, files |-> {}, sig |-> {}, fails |-> 0]

Init ==
  /\ stream = [last |-> 0, trimmed |-> 0]
  /\ group = [last |-> 0, pending |-> {}, idle |-> {}]
  /\ exp = [h \in Hosts |-> Off]
  /\ objects = {} /\ dropped = {} /\ lapsed = {}
  /\ used = [terms |-> 0, faults |-> 0]

Goes(h, r) == exp' = [exp EXCEPT ![h] = r]
At(h, at) == Goes(h, [exp[h] EXCEPT !.at = at])
Fault == used.faults < MaxFaults /\ used' = [used EXCEPT !.faults = @ + 1]
Least(S) == {e \in S : Cardinality({f \in S : f <= e}) <= ReadCount}

(* EventBatcher::drain: one object per event date (the per-file caps are not
   reached). *)
Drain(h, batch) ==
  {[host |-> h, date |-> d, entries |-> {e \in batch : d \in Dates[e]}] :
     d \in UNION {Dates[e] : e \in batch}}

Take(h, batch) ==
  Goes(h, [exp[h] EXCEPT !.at = "write", !.batch = batch, !.files = Drain(h, batch)])
-----------------------------------------------------------------------------
(* flush: XADD with MAXLEN. *)
Flush ==
  /\ stream.last < Last
  /\ stream' = [last |-> stream.last + 1,
                trimmed |-> Max({stream.trimmed, stream.last + 1 - MaxLen})]
  /\ UNCHANGED <<group, exp, objects, dropped, lapsed, used>>

(* A pending entry has been idle for AUTOCLAIM_MIN_IDLE. *)
GoIdle ==
  /\ group.idle # group.pending
  /\ \E e \in group.pending \ group.idle : group' = [group EXCEPT !.idle = @ \cup {e}]
  /\ UNCHANGED <<stream, exp, objects, dropped, lapsed, used>>

(* A host takes the lease; the one before it may still be running. *)
Elect(h) ==
  /\ exp[h].at = "off" /\ used.terms < MaxTerms
  /\ used' = [used EXCEPT !.terms = @ + 1]
  /\ Goes(h, [Off EXCEPT !.at = "reclaim"])
  /\ UNCHANGED <<stream, group, objects, dropped, lapsed>>

Reclaim_Skips(h) ==
  /\ exp[h].at = "reclaim" /\ At(h, "read")
  /\ UNCHANGED <<stream, group, objects, dropped, lapsed, used>>

(* reclaim: XAUTOCLAIM of the idle entries.  The trimmed ones leave the group for
   good: check_discontinuity is given the first entry that was claimed, which
   still exists, so that nothing counts them. *)
Reclaim(h) ==
  LET claimed == Least({e \in group.idle : e > stream.trimmed})
      deleted == {e \in group.idle : e <= stream.trimmed} IN
  /\ exp[h].at = "reclaim"
  /\ group' = [group EXCEPT !.pending = @ \ deleted, !.idle = @ \ (deleted \cup claimed)]
  /\ IF claimed = {} THEN At(h, "read")
     ELSE Take(h, claimed)
  /\ lapsed' = lapsed \cup deleted
  /\ UNCHANGED <<stream, objects, dropped, used>>

(* read_new: XREADGROUP ">" starts after whatever was trimmed. *)
ReadNew(h) ==
  LET new == Least(Max({group.last, stream.trimmed}) + 1..stream.last) IN
  /\ exp[h].at = "read" /\ new # {}
  /\ group' = [group EXCEPT !.last = Max(new), !.pending = @ \cup new]
  /\ lapsed' = lapsed \cup (group.last + 1..stream.trimmed)
  /\ Take(h, new)
  /\ UNCHANGED <<stream, objects, dropped, used>>

(* write_batch: one conditional put per file, in date order. *)
PutFile(h) ==
  LET next == Min({f.date : f \in exp[h].files})
      file == CHOOSE f \in exp[h].files : f.date = next
      left == exp[h].files \ {file} IN
  /\ exp[h].at = "write"
  /\ objects' = objects \cup {file}
  /\ Goes(h, [exp[h] EXCEPT !.files = left, !.at = IF left = {} THEN "ack" ELSE "write"])
  /\ UNCHANGED <<stream, group, dropped, lapsed, used>>

(* A put fails.  The batch is only discarded if the batch before it was the same
   one; otherwise the exporter goes on to new entries. *)
WriteFails(h) ==
  LET fails == IF exp[h].sig = exp[h].batch THEN exp[h].fails + 1 ELSE 1
      poison == fails >= PoisonThreshold IN
  /\ exp[h].at = "write" /\ Fault
  /\ dropped' = IF poison THEN dropped \cup exp[h].batch ELSE dropped
  /\ Goes(h, [exp[h] EXCEPT !.at = IF poison THEN "ack" ELSE "read", !.files = {},
                            !.sig = exp[h].batch, !.fails = fails])
  /\ UNCHANGED <<stream, group, objects, lapsed>>

(* ack: XACK, after which the tracker is reset. *)
Ack(h) ==
  /\ exp[h].at = "ack"
  /\ group' = [group EXCEPT !.pending = @ \ exp[h].batch, !.idle = @ \ exp[h].batch]
  /\ Goes(h, [Off EXCEPT !.at = "read"])
  /\ UNCHANGED <<stream, objects, dropped, lapsed, used>>

(* A failed command ends the service, a crash ends the host; an acknowledgement
   may have arrived. *)
Dies(h) ==
  /\ exp[h].at # "off" /\ Fault /\ Goes(h, Off)
  /\ \/ UNCHANGED group
     \/ /\ exp[h].at = "ack"
        /\ group' = [group EXCEPT !.pending = @ \ exp[h].batch, !.idle = @ \ exp[h].batch]
  /\ UNCHANGED <<stream, objects, dropped, lapsed>>

(* A host that lost the lease stops between two batches. *)
Stop(h) ==
  /\ exp[h].at = "read" /\ \E g \in Hosts \ {h} : exp[g].at # "off"
  /\ Goes(h, Off)
  /\ UNCHANGED <<stream, group, objects, dropped, lapsed, used>>
-----------------------------------------------------------------------------
Step(h) ==
  Reclaim(h) \/ ReadNew(h) \/ PutFile(h) \/ Ack(h)

Next ==
  \/ Flush \/ GoIdle
  \/ \E h \in Hosts : Step(h) \/ Elect(h) \/ WriteFails(h) \/ Dies(h) \/ Stop(h)

Spec == Init /\ [][Next]_vars

FreeElect == (\A g \in Hosts : exp[g].at = "off") /\ \E h \in Hosts : Elect(h)

(* The flusher and the exporters run, and a free lease is taken. *)
FairSpec ==
  /\ Spec /\ WF_vars(Flush)
  /\ \A h \in Hosts : WF_vars(Step(h))
  /\ WF_vars(FreeElect)
-----------------------------------------------------------------------------
(***************************************************************************)
(* Properties.                                                             *)
(***************************************************************************)
TypeOK ==
  /\ stream.trimmed <= stream.last /\ stream.last <= Last
  /\ group.idle \subseteq group.pending /\ group.pending \subseteq 1..group.last
  /\ \A h \in Hosts :
       /\ exp[h].at \in {"off", "reclaim", "read", "write", "ack"}
       /\ exp[h].files \subseteq Drain(h, exp[h].batch)
       /\ exp[h].at = "write" => exp[h].files # {}

Stored(e) ==
  \A d \in Dates[e] : \E o \in objects : o.date = d /\ e \in o.entries
Accounted(e) == Stored(e) \/ e \in dropped \/ e \in lapsed

(* An entry that was delivered is pending until every event in it is in the bucket
   or counted as dropped, unless the stream was trimmed under it while it waited:
   whatever fails or crashes, and whoever else works on the same entries, an
   acknowledgement never covers a missing object. *)
NothingForgotten ==
  \A e \in 1..group.last : e \in group.pending \/ Accounted(e)

(* A term that begins when everything pending is idle, and fits one claim,
   leaves nothing behind but what was trimmed, if nothing fails any more. *)
NextTermCatchesUp ==
  (/\ used = [terms |-> MaxTerms, faults |-> MaxFaults]
   /\ group.idle = group.pending /\ Cardinality(group.pending) <= ReadCount
   /\ \E h \in Hosts : /\ exp[h].at = "reclaim"
                       /\ \A g \in Hosts \ {h} : exp[g].at = "off")
    ~> (\A e \in 1..Last : Accounted(e))

(* Nothing is forgotten that was not trimmed, and a term that finds everything
   pending idle leaves nothing behind. *)
ExportComplete == [](TypeOK /\ NothingForgotten) /\ NextTermCatchesUp
=============================================================================
