---- MODULE PartitionTerms ----
(***************************************************************************)
(* What the exact-token lease of one partition promises to everything that *)
(* writes under it (server/src/partition_lease.rs, and every `_fenced'     *)
(* operation of server/src/game_bus.rs): the durable history of the        *)
(* partition is a sequence of terms.  At most one term is open at a time,  *)
(* only the open term writes, and a term that has written and ended never  *)
(* comes back.                                                             *)
(***************************************************************************)
EXTENDS Integers, Sequences

CONSTANTS Tokens,    \* acquisition tokens (boot identity, acquisition uuid)
          NoToken    \* no lease key in Redis

VARIABLES term,      \* the token in the lease key, or NoToken
          journal    \* the tokens of the fenced writes, in commit order

vars == <<term, journal>>

Written == {journal[i] : i \in DOMAIN journal}

Init == /\ term = NoToken
        /\ journal = <<>>

\* SET lease key PX ttl, when the key does not exist.
Begin(t) == /\ term = NoToken
            /\ t \in Tokens \ Written
            /\ term' = t
            /\ UNCHANGED journal

\* Compare-delete, or expiry of the key.
End == /\ term # NoToken
       /\ term' = NoToken
       /\ UNCHANGED journal

\* A mutation whose script found its own token in the lease key.
Write == /\ term # NoToken
         /\ journal' = Append(journal, term)
         /\ UNCHANGED term

Next == (\E t \in Tokens : Begin(t)) \/ End \/ Write

Spec == Init /\ [][Next]_vars

TypeOK == /\ term \in Tokens \cup {NoToken}
          /\ journal \in Seq(Tokens)

\* The writes of a term are contiguous: between two writes of one acquisition
\* no other acquisition wrote.  A zombie executor therefore never mutates the
\* partition after its successor did.
TermsContiguous ==
    \A i, j, k \in DOMAIN journal :
        i < j /\ j < k /\ journal[i] = journal[k] => journal[j] = journal[i]

====
