----------------------------- MODULE FencedFold -----------------------------
(***************************************************************************)
(* The fold of exported objects into an Iceberg table                       *)
(* (analytics/committer.rs, iceberg_catalog.rs, resume.rs), elected by an   *)
(* exclusion lease whose terms carry epochs (hosted_services/lease.rs).     *)
(*                                                                         *)
(* A lease may end while its holder is paused, so several committers may be *)
(* at work; the table refuses a commit made from an older version of it.    *)
(* An object is a prefix (a date and a host) and its place among the keys   *)
(* of that prefix.                                                          *)
(***************************************************************************)
EXTENDS Integers, FiniteSets

CONSTANTS Nodes, Rank,
          Prefixes, Day,   \* prefix -> its date
          PerPrefix,       \* bound: objects of a prefix
          LastDay,         \* bound: days that pass
          Settings         \* the nodes at work, RETENTION_DAYS, the objects
                           \* exported, and the bounds on attempts at the lease
                           \* and committers that fail

VARIABLES
  holder,   \* the node the lease store names
  epochs,   \* the epoch counter, and the highest epoch that was given the lease
  node,     \* node -> its committer
  table,    \* epoch, marks, whether its schema is current, and how often each object was folded
  put,      \* objects in the bucket
  late,     \* history: those put after one with a later key of the same prefix
  today,
  faults,
  setting   \* which nodes, retention and bounds

fold == <<holder, epochs, node, table, put, late, today, faults>>
vars == <<fold, setting>>

NoOne == "none"
Objects == Prefixes \X (1..PerPrefix)
NoMarks == [p \in Prefixes |-> 0]

(* keys: the listed keys still to do; marks: the marks read with them; fresh: no
   commit since the table was loaded; todo: the marks the loaded table had. *)
Idle == [at |-> "idle", epoch |-> 0, keys |-> {}, marks |-> NoMarks,
         todo |-> NoMarks, fresh |-> FALSE]

Init ==
  /\ holder = NoOne /\ epochs = [next |-> 0, granted |-> 0]
  /\ node = [n \in Nodes |-> Idle]
  /\ table = [epoch |-> 0, marks |-> NoMarks, schema |-> FALSE, rows |-> [k \in Objects |-> 0]]
  /\ put = {} /\ late = {} /\ today = 0 /\ faults = 0
  /\ setting \in Settings

Goes(n, r) == node' = [node EXCEPT ![n] = r]
InWindow(p) == Day[p] + setting.retention >= today
Release(n) == holder' = IF holder = n THEN NoOne ELSE holder
-----------------------------------------------------------------------------
(***************************************************************************)
(* The lease and its epochs (try_acquire).                                 *)
(***************************************************************************)
(* The epoch is allocated before the lease is taken. *)
AllocateEpoch(n) ==
  /\ node[n].at = "idle" /\ n \in setting.nodes /\ epochs.next < setting.terms
  /\ epochs' = [epochs EXCEPT !.next = @ + 1]
  /\ Goes(n, [Idle EXCEPT !.at = "acquire", !.epoch = epochs.next + 1])
  /\ UNCHANGED <<holder, table, put, late, today, faults>>

TakeLease(n) ==
  LET granted == IF holder = NoOne THEN TRUE ELSE Rank[n] < Rank[holder] IN
  /\ node[n].at = "acquire"
  /\ holder' = IF granted THEN n ELSE holder
  /\ epochs' = IF granted /\ node[n].epoch > epochs.granted
               THEN [epochs EXCEPT !.granted = node[n].epoch] ELSE epochs
  /\ Goes(n, IF granted THEN [node[n] EXCEPT !.at = "pass"] ELSE Idle)
  /\ UNCHANGED <<table, put, late, today, faults>>

(* The term of a paused holder runs out. *)
Expire ==
  /\ holder # NoOne /\ holder' = NoOne
  /\ UNCHANGED <<epochs, node, table, put, late, today, faults>>
-----------------------------------------------------------------------------
(***************************************************************************)
(* A pass of the fold (fold_once).                                         *)
(***************************************************************************)
(* A commit made from the loaded table lands, and outdates every other load. *)
Lands(n, t, r) ==
  /\ table' = t
  /\ node' = [m \in Nodes |-> IF m = n THEN r ELSE [node[m] EXCEPT !.fresh = FALSE]]
  /\ UNCHANGED holder

(* A fenced or failed committer ends its term and starts again. *)
StandsDown(n) == Goes(n, Idle) /\ Release(n) /\ UNCHANGED table

(* reconcile_schema: missing columns are added by a commit of their own. *)
LoadSchema(n) ==
  /\ node[n].at = "pass"
  /\ Goes(n, [node[n] EXCEPT !.at = IF table.schema THEN "list" ELSE "columns", !.fresh = TRUE])
  /\ UNCHANGED <<holder, epochs, table, put, late, today, faults>>

AddColumns(n) ==
  /\ node[n].at = "columns"
  /\ IF node[n].fresh
     THEN Lands(n, [table EXCEPT !.schema = TRUE], [node[n] EXCEPT !.at = "list"])
     ELSE StandsDown(n)
  /\ UNCHANGED <<epochs, put, late, today, faults>>

(* resume_marks, then the keys of the retention window that are not folded. *)
ReadMarks(n) ==
  /\ node[n].at = "list"
  /\ Goes(n, [node[n] EXCEPT !.at = "keys", !.marks = table.marks])
  /\ UNCHANGED <<holder, epochs, table, put, late, today, faults>>

ListKeys_FromMarks(n) ==
  /\ node[n].at = "keys"
  /\ Goes(n, [node[n] EXCEPT !.at = "fold",
       !.keys = {k \in put : /\ InWindow(k[1])
                             /\ \A p \in Prefixes : k[2] > node[n].marks[p]}])
  /\ UNCHANGED <<holder, epochs, table, put, late, today, faults>>

ListKeys(n) ==
  /\ node[n].at = "keys"
  /\ Goes(n, [node[n] EXCEPT !.at = "fold",
       !.keys = {k \in put : /\ InWindow(k[1])
                             /\ k[2] > node[n].marks[k[1]]}])
  /\ UNCHANGED <<holder, epochs, table, put, late, today, faults>>

(* is_fenced *)
IsFenced(n) == table.epoch > node[n].epoch

AlreadyFolded_No(k) == FALSE

(* ResumeMarks::already_folded *)
AlreadyFolded(k) == k[2] <= table.marks[k[1]]

(* The listing is in lexicographic order. *)
First(keys) ==
  CHOOSE k \in keys : \A j \in keys : k[1] < j[1] \/ (k[1] = j[1] /\ k[2] <= j[2])

(* commit reads the table: the fence and the marks in one read. *)
LoadTable(n) ==
  LET k == First(node[n].keys) IN
  /\ node[n].at = "fold" /\ node[n].keys # {}
  /\ IF IsFenced(n) THEN StandsDown(n)
     ELSE /\ Goes(n, IF AlreadyFolded(k) THEN [node[n] EXCEPT !.keys = @ \ {k}]
                     ELSE [node[n] EXCEPT !.at = "commit", !.todo = table.marks, !.fresh = TRUE])
          /\ UNCHANGED <<holder, table>>
  /\ UNCHANGED <<epochs, put, late, today, faults>>

(* ResumeMarks::record and prune, against the window of the day of the commit. *)
Recorded(marks, k) ==
  [p \in Prefixes |-> IF ~InWindow(p) THEN 0
                      ELSE IF p = k[1] /\ marks[p] < k[2] THEN k[2] ELSE marks[p]]

(* The rows, the marks and the epoch land in one commit, or, when another came
   first, none does. *)
Commit(n) ==
  LET k == First(node[n].keys) IN
  /\ node[n].at = "commit"
  /\ IF node[n].fresh
     THEN Lands(n, [table EXCEPT !.epoch = node[n].epoch, !.rows[k] = @ + 1,
                                 !.marks = Recorded(node[n].todo, k)],
                [node[n] EXCEPT !.at = "fold", !.keys = @ \ {k}])
     ELSE StandsDown(n)
  /\ UNCHANGED <<epochs, put, late, today, faults>>

(* The pass is over; the service looks at its cancellation before the next. *)
NextPass(n) ==
  /\ node[n].at = "fold" /\ node[n].keys = {}
  /\ Goes(n, IF holder = n THEN [Idle EXCEPT !.at = "pass", !.epoch = node[n].epoch] ELSE Idle)
  /\ UNCHANGED <<holder, epochs, table, put, late, today, faults>>
-----------------------------------------------------------------------------
(* A request fails or the host dies: the pass is given up where it was. *)
Fail(n) ==
  /\ node[n].at # "idle" /\ faults < setting.faults /\ faults' = faults + 1
  /\ Goes(n, Idle)
  /\ Release(n) \/ UNCHANGED holder
  /\ UNCHANGED <<epochs, table, put, late, today>>

(* An exporter writes an object.  Keys of a prefix come in any order: a batch
   that failed is written by a later term of its host, after newer ones. *)
Put(k) ==
  /\ k \in setting.objects \ put /\ Day[k[1]] <= today
  /\ put' = put \cup {k}
  /\ late' = late \cup {j \in {k} : \E i \in put : i[1] = j[1] /\ i[2] > j[2]}
  /\ UNCHANGED <<holder, epochs, node, table, today, faults>>

Midnight ==
  /\ today < LastDay /\ today' = today + 1
  /\ UNCHANGED <<holder, epochs, node, table, put, late, faults>>

Step(n) ==
  \/ AllocateEpoch(n) \/ TakeLease(n) \/ LoadSchema(n) \/ AddColumns(n) \/ ReadMarks(n)
  \/ ListKeys(n) \/ LoadTable(n) \/ Commit(n) \/ NextPass(n)

Change ==
  \/ Expire \/ Midnight
  \/ \E k \in Objects : Put(k)
  \/ \E n \in Nodes : Step(n) \/ Fail(n)

Next == Change /\ UNCHANGED setting

Spec == Init /\ [][Next]_vars

Busy(n) == node[n].at # "idle" /\ Step(n)
FreeAllocate(n) == holder = NoOne /\ AllocateEpoch(n)
OrphanExpires == (\A n \in Nodes : n = holder => node[n].at = "idle") /\ Expire

(* Committers run, a free lease is asked for, and that of a dead node runs out. *)
FairSpec ==
  /\ Spec
  /\ \A n \in Nodes : WF_fold(Busy(n)) /\ WF_fold(FreeAllocate(n))
  /\ WF_fold(OrphanExpires)
-----------------------------------------------------------------------------
(***************************************************************************)
(* Properties.                                                             *)
(***************************************************************************)
TypeOK ==
  /\ holder \in Nodes \cup {NoOne} /\ epochs.granted <= epochs.next
  /\ table.epoch <= epochs.granted /\ table.marks \in [Prefixes -> 0..PerPrefix]
  /\ \A n \in Nodes :
       /\ node[n].at \in {"idle", "acquire", "pass", "columns", "list", "keys", "fold", "commit"}
       /\ node[n].keys \subseteq put /\ node[n].epoch <= epochs.next
       /\ node[n].at = "commit" => node[n].keys # {}

(* No object's rows are in the table twice, however many committers a pause, a
   takeover or a crash leaves at work on the same listing, as long as its day is
   in the window: a listing made before midnight outlives the marks pruned after
   it. *)
FoldedOnce == \A k \in Objects : InWindow(k[1]) => table.rows[k] <= 1

(* Within the window the marks say what was folded: none is folded above them, and
   the only objects they hide unfolded are those written below a later key of the
   same prefix. *)
MarksExact ==
  \A k \in Objects : InWindow(k[1]) =>
    /\ table.rows[k] > 0 => k[2] <= table.marks[k[1]]
    /\ k \in put \ late /\ k[2] <= table.marks[k[1]] => table.rows[k] > 0

(* Once a newer term has committed, an older one never does. *)
EpochNeverFalls == [][table'.epoch >= table.epoch]_vars

(* Whatever committers a pause, a takeover or a crash leaves at work, a table within
   its window has every row once, marks that hide nothing written in order, and no
   commit of an older term. *)
FoldExact == [](TypeOK /\ FoldedOnce /\ MarksExact) /\ EpochNeverFalls

(* Every object in the bucket is folded, unless it leaves the window first or was
   written below a later key of its prefix (or the bounded terms are used up). *)
FoldedAtLast ==
  <>[]\A k \in put \ late :
    \/ table.rows[k] > 0 \/ ~InWindow(k[1])
    \/ epochs.next = setting.terms /\ \A n \in Nodes : node[n].at = "idle"
=============================================================================
