---- MODULE RankingLadder ----
(***************************************************************************)
(* A player's row on one ranking ladder in DynamoDB, while the MMR and     *)
(* ranking effects of several finished games and the readers of the        *)
(* leaderboard page run at the same time (apply_completion_effect,         *)
(* get_user_ranking and backfill_ranking_pointer of                        *)
(* server/src/db/dynamodb.rs).                                             *)
(*                                                                         *)
(* The row is keyed by its rating, so a user is found through a pointer    *)
(* item that duplicates it.  Rows older than pointers are found by a paged *)
(* scan, whose result is written back on the read path.  Completion shows  *)
(* that every effect commits once; here it is what the commit writes.      *)
(***************************************************************************)
EXTENDS Integers, FiniteSets

CONSTANTS Teams,      \* sets of drains at work, each a pair of a finished game
                      \* of the player and a drain of it
          FirstMmr    \* rating before those games

VARIABLES
    team,       \* the drains of this behaviour
    legacy,     \* the player has a row from before pointers existed
    mmr,        \* rating in the user's META item
    mmrDone,    \* games whose AddMmr marker exists
    rankDone,   \* games whose UpdateRanking marker exists
    ladder,     \* sort key -> row
    pointer,    \* item under the user-addressed sort key
    look,       \* process -> its ranking read in progress
    returned    \* history: an effect committed although the rating it read had
                \* moved since, and moved back

vars == <<mmr, mmrDone, rankDone, ladder, pointer, look, returned>>

Deltas == {-1, 1}
Web == <<"web", 0>>                         \* a request of the leaderboard page
Workers == UNION Teams
Games == {w[1] : w \in team}
Processes == Workers \cup {Web}
Mmrs == (FirstMmr - Cardinality(Games)) .. (FirstMmr + Cardinality(Games))

\* The rating part of the sort key: inverted in the code, so that the partition
\* lists the strongest first, and clamped at zero.
SortKey(m) == IF m < 0 THEN 0 ELSE m
TopKey == FirstMmr + Cardinality(Games)

Row(m, n) == [kind |-> "row", mmr |-> m, games |-> n]
Nothing == [kind |-> "none", mmr |-> 0, games |-> 0]
Absent == [Nothing EXCEPT !.kind = "absent"]      \* absent_ranking_pointer

LegacyGames == 1
Resting == [phase |-> "idle", mmr |-> 0, since |-> 0, entry |-> Nothing, at |-> TopKey]
Reading(m) == [Resting EXCEPT !.phase = "pointer", !.mmr = m, !.since = Cardinality(mmrDone)]

Init ==
    /\ team \in Teams /\ legacy \in BOOLEAN
    /\ mmr = FirstMmr /\ mmrDone = {} /\ rankDone = {}
    /\ ladder = [k \in IF legacy THEN {SortKey(FirstMmr)} ELSE {} |-> Row(FirstMmr, LegacyGames)]
    /\ pointer = Nothing
    /\ look = [p \in Processes |-> Resting]
    /\ returned = FALSE

-----------------------------------------------------------------------------

\* AddMmr: the marker and ADD commute with every other effect.
ApplyMmr(g) ==
    /\ g \notin mmrDone
    /\ \E d \in Deltas : mmr' = mmr + d
    /\ mmrDone' = mmrDone \cup {g}
    /\ UNCHANGED <<rankDone, ladder, pointer, look, returned>>

\* The UpdateRanking arm of apply_completion_effect begins with a strongly
\* consistent read of the user.
BeginRanking(w) ==
    /\ look[w].phase = "idle"
    /\ w[1] \in mmrDone \ rankDone
    /\ look' = [look EXCEPT ![w] = Reading(mmr)]
    /\ UNCHANGED <<mmr, mmrDone, rankDone, ladder, pointer, returned>>

BeginPage ==
    /\ look[Web].phase = "idle"
    /\ look' = [look EXCEPT ![Web] = [Resting EXCEPT !.phase = "pointer"]]
    /\ UNCHANGED <<mmr, mmrDone, rankDone, ladder, pointer, returned>>

\* get_user_ranking, fast path: a row, a tombstone, or nothing yet.
Known(p, entry) == IF p = Web THEN Resting
                   ELSE [look[p] EXCEPT !.phase = "ready", !.entry = entry]
ReadPointer(p) ==
    /\ look[p].phase = "pointer"
    /\ look' = [look EXCEPT ![p] = CASE pointer.kind = "row" -> Known(p, pointer)
                                     [] pointer.kind = "absent" -> Known(p, Nothing)
                                     [] OTHER -> [@ EXCEPT !.phase = "scan"]]
    /\ UNCHANGED <<mmr, mmrDone, rankDone, ladder, pointer, returned>>

\* Migration path: the partition is walked page by page, strongest first.  Rows
\* may move between two pages.
Scan(p) ==
    /\ look[p].phase = "scan"
    /\ LET k == look[p].at
       IN  look' = [look EXCEPT ![p] =
               CASE k \in DOMAIN ladder -> [@ EXCEPT !.phase = "backfill", !.entry = ladder[k]]
                 [] k \notin DOMAIN ladder /\ k > 0 -> [@ EXCEPT !.at = k - 1]
                 [] OTHER -> [@ EXCEPT !.phase = "backfill"]]
    /\ UNCHANGED <<mmr, mmrDone, rankDone, ladder, pointer, returned>>

\* backfill_ranking_pointer: only where there is no pointer.  The promoted row
\* is written with all its attributes.
MayBackfill == pointer = Nothing

Backfill(p) ==
    /\ look[p].phase = "backfill"
    /\ pointer' = IF ~MayBackfill THEN pointer
                  ELSE IF look[p].entry.kind = "row" THEN look[p].entry ELSE Absent
    /\ look' = [look EXCEPT ![p] = Known(p, look[p].entry)]
    /\ UNCHANGED <<mmr, mmrDone, rankDone, ladder, returned>>

-----------------------------------------------------------------------------
(* The ranking transaction.                                                *)

\* The row that the transaction writes.
Written(w) ==
    LET e == look[w].entry
    IN  Row(look[w].mmr, IF e.kind = "row" THEN e.games + 1 ELSE 1)

SameRow(row, e) == row.mmr = e.mmr /\ row.games = e.games

\* The row read before is still the one under its key.
Holds(e) == SortKey(e.mmr) \in DOMAIN ladder /\ SameRow(ladder[SortKey(e.mmr)], e)

\* Guards: the user's rating, the markers, and the ladder rows it replaces.
LadderAllows(w) ==
    LET e == look[w].entry
        new == SortKey(look[w].mmr)
    IN  \/ e.kind = "none" /\ new \notin DOMAIN ladder
        \/ e.kind = "row" /\ SortKey(e.mmr) = new /\ Holds(e)
        \/ e.kind = "row" /\ SortKey(e.mmr) # new /\ Holds(e) /\ new \notin DOMAIN ladder

MmrUnmoved(w) == mmr = look[w].mmr

Commits(w) == w[1] \notin rankDone /\ MmrUnmoved(w) /\ LadderAllows(w)

\* Old row out (when it was under another key), new row in, pointer beside it.
Ladder_KeepsOld(w) ==
    [k \in DOMAIN ladder \cup {SortKey(look[w].mmr)} |->
        IF k = SortKey(look[w].mmr) THEN Written(w) ELSE ladder[k]]
Ladder(w) ==
    LET e == look[w].entry
        kept == IF e.kind = "row" THEN DOMAIN ladder \ {SortKey(e.mmr)} ELSE DOMAIN ladder
    IN  [k \in kept \cup {SortKey(look[w].mmr)} |->
            IF k = SortKey(look[w].mmr) THEN Written(w) ELSE ladder[k]]

\* Refused: the effect starts over from its reads, or ends if the marker is there.
Transact(w) ==
    /\ look[w].phase = "ready"
    /\ look' = [look EXCEPT ![w] = Resting]
    /\ IF Commits(w)
       THEN /\ ladder' = Ladder(w)
            /\ pointer' = Written(w)
            /\ rankDone' = rankDone \cup {w[1]}
            /\ returned' = (returned \/ look[w].since < Cardinality(mmrDone))
       ELSE UNCHANGED <<ladder, pointer, rankDone, returned>>
    /\ UNCHANGED <<mmr, mmrDone>>

-----------------------------------------------------------------------------

Next ==
    /\ \/ \E g \in Games : ApplyMmr(g)
       \/ \E w \in team : BeginRanking(w) \/ Transact(w)
       \/ BeginPage
       \/ \E p \in Processes : ReadPointer(p) \/ Scan(p) \/ Backfill(p)
    /\ UNCHANGED <<team, legacy>>

Spec == Init /\ [][Next]_<<vars, team, legacy>>

-----------------------------------------------------------------------------
(* Properties.                                                             *)

TypeOK ==
    /\ mmr \in Mmrs /\ mmrDone \subseteq Games /\ rankDone \subseteq mmrDone
    /\ DOMAIN ladder \subseteq 0 .. TopKey
    /\ pointer.kind \in {"none", "absent", "row"}
    /\ \A p \in Processes :
          look[p].phase \in {"idle", "pointer", "scan", "backfill", "ready"}

\* A player appears once on a regional ladder: the transaction that moves a row
\* to another sort key takes the old one away, and an effect that read no row
\* writes a first one only if there still is none, because its guard on the
\* rating is there to "prevent a stale ranking read from committing after another
\* game's MMR transaction".
OneRow == Cardinality(DOMAIN ladder) <= 1

\* No game is lost and none is counted twice: the row counts the legacy games and
\* exactly the games whose ranking effect is marked.
GamesCounted ==
    \A k \in DOMAIN ladder :
        ladder[k].games = (IF legacy THEN LegacyGames ELSE 0) + Cardinality(rankDone)

\* When every game has been projected the row shows the player's rating.
LadderConverges ==
    rankDone = Games /\ Games # {} => \A k \in DOMAIN ladder : ladder[k].mmr = mmr

\* What get_user_ranking's fast path returns is the ladder: a backfill by a slow
\* reader never rolls a counter back, a tombstone never hides a row.
PointerAgrees ==
    /\ pointer.kind = "row" =>
          \E k \in DOMAIN ladder : SameRow(pointer, ladder[k])
    /\ pointer.kind = "absent" => DOMAIN ladder = {}

\* Together: the ladder, and what is read of it, shows what the games did to the
\* player, whichever drains and pages work on it at once, unless an effect
\* committed on a rating that had moved away and back since it was read.
LadderExact ==
    TypeOK /\ (~returned => OneRow /\ GamesCounted /\ LadderConverges /\ PointerAgrees)
====
