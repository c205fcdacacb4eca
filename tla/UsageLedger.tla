---------------------------- MODULE UsageLedger ----------------------------
(***************************************************************************)
(* The usage of one scope in one process (UsageLedger and BucketSeries,     *)
(* hexgate/runtime/agent_usage.py): one metric, counted in rings of time    *)
(* buckets, finest ring first, and read over any span back from now by the  *)
(* finest ring that spans it.                                               *)
(*                                                                         *)
(* `added' is what the rings stand for: when everything was recorded.       *)
(***************************************************************************)
EXTENDS Integers, Sequences, FiniteSets, Functions

CONSTANTS
  Rings,         \* sequence of [width, retention], finest first
  Windows,       \* the spans policies may ask for
  MaxAdds,       \* bound: how much is recorded
  MaxNow         \* bound: the clock

\* Of the constants; assumed by the modules that give them values.
RingsAssumption ==
  /\ Rings \in Seq([width : Nat \ {0}, retention : Nat])
  /\ Rings # <<>>
  /\ Windows \subseteq 0..Rings[Len(Rings)].retention
  /\ MaxAdds \in Nat /\ MaxNow \in Nat

VARIABLES
  now,           \* the monotonic clock
  counts,        \* the slots of each ring
  newest,        \* the newest bucket of each ring, -1 before the first
  added          \* the instants at which something was recorded

vars == <<now, counts, newest, added>>

\* One slot more than the retention holds, for the bucket a cut-off exactly that
\* old falls in.
Slots(r) == Rings[r].retention \div Rings[r].width + 1

Index(r, instant) == instant \div Rings[r].width

Init ==
  /\ now = 0
  /\ counts = [r \in DOMAIN Rings |-> [s \in 0..Slots(r) - 1 |-> 0]]
  /\ newest = [r \in DOMAIN Rings |-> -1]
  /\ added = <<>>

-----------------------------------------------------------------------------
\* The slots of `count' buckets from `first' (_spans).
SlotsOf(r, first, count) == {(first + i) % Slots(r) : i \in 0..count - 1}

SmallerOf(a, b) == IF a < b THEN a ELSE b
LargerOf(a, b) == IF a > b THEN a ELSE b

\* (Mutant) All but the new bucket's own slot are cleared.
LappedButLast(r, index) == SlotsOf(r, newest[r] + 1, SmallerOf(index - newest[r], Slots(r)) - 1)

\* _advance: the slots the ring laps on the way to bucket `index'.
Lapped(r, index) ==
  IF newest[r] = -1 THEN {}
  ELSE LET lapped == SmallerOf(index - newest[r], Slots(r))
       IN  SlotsOf(r, index - lapped + 1, lapped)

\* BucketSeries.add.
Added(r) ==
  LET index == Index(r, now)
      slot == index % Slots(r)
      zeroed == [s \in DOMAIN counts[r] |-> IF s \in Lapped(r, index) THEN 0 ELSE counts[r][s]]
  IN  [zeroed EXCEPT ![slot] = @ + 1]

\* UsageLedger.record, in every ring at once.
Record ==
  /\ Len(added) < MaxAdds
  /\ counts' = [r \in DOMAIN Rings |-> Added(r)]
  /\ newest' = [r \in DOMAIN Rings |-> Index(r, now)]
  /\ added' = Append(added, now)
  /\ UNCHANGED now

Tick ==
  /\ now < MaxNow
  /\ now' = now + 1
  /\ UNCHANGED <<counts, newest, added>>

Next == Record \/ Tick

Spec == Init /\ [][Next]_vars

-----------------------------------------------------------------------------
(* Reads.                                                                  *)

SumOver(f, S) == FoldFunctionOnSet(+, 0, f, S)

\* BucketSeries.total_since: every bucket from the one that holds `instant'.
TotalSince(r, instant) ==
  IF newest[r] = -1 THEN 0
  ELSE LET first == LargerOf(Index(r, instant), newest[r] - Slots(r) + 1)
       IN  SumOver(counts[r], SlotsOf(r, first, newest[r] - first + 1))

\* (Mutant) The finest ring answers everything.
FinestCovering(span) == 1

\* _covering: the finest ring that spans it, else the coarsest.
Covering(span) ==
  LET spanning == {r \in DOMAIN Rings : span <= Rings[r].retention}
  IN  IF spanning = {} THEN Len(Rings) ELSE CHOOSE r \in spanning : \A q \in spanning : r <= q

\* UsageLedger.within_each, one window of it.
Within(span) == TotalSince(Covering(span), now - span)

\* What was recorded at `instant' or later.
TrulySince(instant) == Cardinality({i \in DOMAIN added : added[i] >= instant})

-----------------------------------------------------------------------------
(* Properties.                                                             *)

\* Every slot holds a count of the buckets the ring still holds.
TypeOK ==
  /\ now \in 0..MaxNow
  /\ added \in Seq(0..MaxNow) /\ Len(added) <= MaxAdds
  /\ \A r \in DOMAIN Rings :
       /\ counts[r] \in [0..Slots(r) - 1 -> 0..MaxAdds]
       /\ newest[r] \in -1..Index(r, MaxNow)

\* A ring that was lapped any number of times, or not used for longer than it
\* retains, neither loses a count nor reads one that is older than its window
\* by a bucket's width or more: the over-count is under one width.
WindowsHold ==
  \A span \in Windows :
    /\ Within(span) >= TrulySince(now - span)
    /\ Within(span) <= TrulySince(now - span - Rings[Covering(span)].width + 1)

=============================================================================
