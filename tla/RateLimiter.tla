----------------------------- MODULE RateLimiter -----------------------------
(***************************************************************************)
(* What a rate limiter promises, said over the whole past and without a    *)
(* word on how it remembers it: a grant is possible only while fewer than  *)
(* Limit grants are at most Window old.                                    *)
(***************************************************************************)
EXTENDS Clock, FiniteSets, Integers

CONSTANTS
  Window,
  Limit,
  Tickets               \* identities of the grants

VARIABLE grantedAt      \* the time of every grant there ever was, by ticket

Recent == {k \in DOMAIN grantedAt : Elapsed(grantedAt[k]) <= Window}

Init == ClockInit /\ grantedAt = [k \in {} |-> 0]

Grant(k) ==
  /\ k \notin DOMAIN grantedAt
  /\ Cardinality(Recent) < Limit
  /\ grantedAt' = [j \in DOMAIN grantedAt \cup {k} |->
                     IF j \in DOMAIN grantedAt THEN grantedAt[j] ELSE now]
  /\ UNCHANGED now

Next ==
  \/ Tick /\ UNCHANGED grantedAt
  \/ \E k \in Tickets : Grant(k)

Spec == Init /\ [][Next]_<<now, grantedAt>>

=============================================================================
