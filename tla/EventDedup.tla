----------------------------- MODULE EventDedup -----------------------------
(***************************************************************************)
(* RecentEventIds (platform/api/hexgate_api/jobs/enricher/dedup.py): the   *)
(* ids this process has stored within the last Window of record time, in   *)
(* the order they were remembered.                                         *)
(***************************************************************************)
EXTENDS Naturals, Sequences

CONSTANTS
  Window,       \* DEDUP_WINDOW_MS
  MaxEntries,   \* DEDUP_MAX_ENTRIES
  MaxSkew       \* DEDUP_MAX_CLOCK_SKEW_MS

ASSUME DedupAssumption ==
  Window \in Nat /\ MaxEntries \in Nat \ {0} /\ MaxSkew \in Nat

\* Entries are [key, at], at the record time capped at the wall clock.
EmptyCache == [seen |-> <<>>, newest |-> 0]

Knows(cache, key) == \E i \in DOMAIN cache.seen : cache.seen[i].key = key

\* (Mutant) No cap on a record time from the future.
UncappedAt(at, wall) == at

CappedAt(at, wall) == IF at > wall + MaxSkew THEN wall + MaxSkew ELSE at

\* (Mutant) Off by one: an entry exactly as old as the window goes.
GoesTooEarly(seen, horizon, n) == seen[n].at <= horizon \/ Len(seen) - n + 1 > MaxEntries

\* Whether the n-th entry goes when it is the first one left: it has left the
\* window, or the cache is over its limit.
Goes(seen, horizon, n) == seen[n].at < horizon \/ Len(seen) - n + 1 > MaxEntries

\* From the front only, up to the first entry that stays.
Expire(seen, horizon) ==
  LET kept == {n \in DOMAIN seen : ~Goes(seen, horizon, n)}
  IN  IF kept = {} THEN <<>>
      ELSE SubSeq(seen, CHOOSE n \in kept : \A m \in kept : n <= m, Len(seen))

\* stored: the entries of one poll, none of which the cache knows.
Remember(cache, stored, wall) ==
  LET capped == [i \in DOMAIN stored |->
                   [stored[i] EXCEPT !.at = CappedAt(@, wall)]]
      times  == {cache.newest} \cup {capped[i].at : i \in DOMAIN capped}
      newest == CHOOSE t \in times : \A u \in times : u <= t
  IN  [seen   |-> Expire(cache.seen \o capped,
                         IF newest >= Window THEN newest - Window ELSE 0),
       newest |-> newest]
=============================================================================
