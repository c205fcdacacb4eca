---------------------------- MODULE EnricherProofs ----------------------------
(* Theorems about Enricher for any number of spans, tables, processes and    *)
(* accidents: what is not lost, whatever the dedup window is, and what is    *)
(* counted twice when the window is long enough.                             *)
EXTENDS Enricher, FiniteSetTheorems, WellFoundedInduction, TLAPS

-----------------------------------------------------------------------------
(* Numbers and orders.                                                       *)

LEMMA LeastNumber ==
  ASSUME NEW S \in SUBSET Nat, S # {}
  PROVE  \E n \in S : \A m \in S : n <= m
<1>1. \E n \in S : \A m \in S : ~(<<m, n>> \in OpToRel(<, Nat))
  BY WFMin, NatLessThanWellFounded
<1>2. PICK n \in S : \A m \in S : ~(<<m, n>> \in OpToRel(<, Nat))
  BY <1>1
<1>3. \A m \in S : ~(m < n)
  BY <1>2, Zenon DEF OpToRel
<1>4. QED BY <1>3

LEMMA GreatestNumber ==
  ASSUME NEW S \in SUBSET Nat, S # {}, NEW bound \in Nat, \A n \in S : n <= bound
  PROVE  \E n \in S : \A m \in S : m <= n
<1>1. PICK T : T = {bound - n : n \in S}
  OBVIOUS
<1>2. T \in SUBSET Nat /\ T # {}
  <2>1. \A n \in S : bound - n \in Nat
    OBVIOUS
  <2>2. QED BY <1>1, <2>1
<1>3. PICK t \in T : \A u \in T : t <= u
  BY <1>2, LeastNumber
<1>4. PICK n \in S : t = bound - n
  BY <1>1
<1>5. \A m \in S : bound - n <= bound - m
  BY <1>1, <1>3, <1>4
<1>6. QED BY <1>5

\* A set that has 0, and with each number the next one, has them all.
LEMMA NumbersByStep ==
  ASSUME NEW G, 0 \in G, \A n \in G \cap Nat : n + 1 \in G
  PROVE  Nat \subseteq G
<1>1. SUFFICES ASSUME Nat \ G # {} PROVE FALSE
  OBVIOUS
<1>2. PICK n \in Nat \ G : \A m \in Nat \ G : n <= m
  BY <1>1, LeastNumber
<1>3. n # 0 /\ n - 1 \in Nat /\ ~(n <= n - 1)
  BY <1>2
<1>4. n - 1 \in G /\ (n - 1) + 1 = n
  BY <1>2, <1>3
<1>5. QED BY <1>2, <1>3, <1>4

Increasing(S, q) ==
  q \in [1..Cardinality(S) -> S] /\ \A i, k \in DOMAIN q : i < k => q[i] < q[k]

\* The offsets of a poll have an order.
LEMMA OrderExists ==
  ASSUME NEW n \in Nat, NEW S \in SUBSET (1..n)
  PROVE  \E q : Increasing(S, q)
<1>1. PICK G : G = {k \in Nat : \A T \in SUBSET (1..k) : \E q : Increasing(T, q)}
  OBVIOUS
<1>2. 0 \in G
  <2>1. ASSUME NEW T \in SUBSET (1..0) PROVE \E q : Increasing(T, q)
    <3>1. 1..0 = {}
      OBVIOUS
    <3>2. T = {} /\ Cardinality({}) = 0
      BY <3>1, FS_EmptySet
    <3>3. PICK q : q = [i \in 1..0 |-> i]
      OBVIOUS
    <3>4. q \in [1..0 -> {}] /\ DOMAIN q = {}
      BY <3>1, <3>3
    <3>5. Increasing(T, q)
      BY <3>1, <3>2, <3>4 DEF Increasing
    <3>6. QED BY <3>5
  <2>2. QED BY <1>1, <2>1
<1>3. ASSUME NEW k \in G \cap Nat PROVE k + 1 \in G
  <2>1. ASSUME NEW T \in SUBSET (1..(k + 1)) PROVE \E q : Increasing(T, q)
    <3>1. PICK U : U = T \ {k + 1}
      OBVIOUS
    <3>2. U \in SUBSET (1..k)
      <4>1. ASSUME NEW x \in U PROVE x \in 1..k
        <5>1. x \in 1..(k + 1) /\ x # k + 1 /\ k \in Nat
          BY <1>3, <2>1, <3>1, <4>1
        <5>2. QED BY <5>1
      <4>2. QED BY <4>1
    <3>3. PICK q : Increasing(U, q)
      BY <1>1, <1>3, <3>2
    <3>4. IsFiniteSet(U) /\ Cardinality(U) \in Nat
      <4>1. IsFiniteSet(1..k)
        BY FS_Interval
      <4>2. QED BY <3>2, <4>1, FS_Subset, FS_CardinalityType
    <3>5. CASE k + 1 \notin T
      BY <3>1, <3>3, <3>5
    <3>6. CASE k + 1 \in T
      <4>1. PICK c : c = Cardinality(U)
        OBVIOUS
      <4>2. T = U \cup {k + 1} /\ k + 1 \notin U
        BY <3>1, <3>6
      <4>3. Cardinality(T) = c + 1
        BY <3>4, <4>1, <4>2, FS_AddElement
      <4>4. PICK r : r = [i \in 1..(c + 1) |-> IF i <= c THEN q[i] ELSE k + 1]
        OBVIOUS
      <4>5. q \in [1..c -> U] /\ \A i, j \in 1..c : i < j => q[i] < q[j]
        BY <3>3, <4>1 DEF Increasing
      <4>6. r \in [1..(c + 1) -> T]
        BY <3>4, <4>1, <4>2, <4>4, <4>5
      <4>7. ASSUME NEW i \in 1..(c + 1), NEW j \in 1..(c + 1), i < j PROVE r[i] < r[j]
        <5>1. i \in 1..c /\ r[i] = q[i] /\ q[i] \in 1..k
          <6>1. c \in Nat /\ i \in Nat /\ j \in Nat /\ j <= c + 1 /\ 1 <= i /\ i < j
            BY <3>4, <4>1, <4>7
          <6>2. i \in 1..c /\ r[i] = q[i]
            BY <4>4, <4>7, <6>1
          <6>3. QED BY <3>2, <4>5, <6>2
        <5>2. CASE j <= c
          BY <3>4, <4>1, <4>4, <4>5, <4>7, <5>1, <5>2
        <5>3. CASE j = c + 1
          BY <3>4, <4>1, <4>4, <5>1, <5>3
        <5>4. QED BY <3>4, <4>1, <5>2, <5>3
      <4>8. QED BY <4>3, <4>6, <4>7 DEF Increasing
    <3>7. QED BY <3>5, <3>6
  <2>2. QED BY <1>1, <2>1
<1>4. QED BY <1>1, <1>2, <1>3, NumbersByStep

LEMMA Elements ==
  ASSUME NEW S, NEW s \in Seq(S)
  PROVE  /\ Len(s) \in Nat /\ DOMAIN s = 1..Len(s)
         /\ \A i \in 1..Len(s) : s[i] \in S
OBVIOUS

LEMMA Joined ==
  ASSUME NEW S, NEW s \in Seq(S), NEW t \in Seq(S)
  PROVE  /\ s \o t \in Seq(S) /\ Len(s \o t) = Len(s) + Len(t)
         /\ \A i \in 1..Len(s) : (s \o t)[i] = s[i]
         /\ \A i \in 1..Len(t) : (s \o t)[Len(s) + i] = t[i]
OBVIOUS

-----------------------------------------------------------------------------
(* The dedup cache, and one poll.                                            *)

Known == {Key(s) : s \in Spans}
Offsets == Nat \ {0}

Cache == [seen : Seq(Entry), newest : Nat]

JobRec == [pc : PCs, upto : Nat, stale : BOOLEAN, stopping : BOOLEAN, fresh : SUBSET Offsets,
           acked : 0..Len(Sinks), envelopes : SUBSET Offsets, recent : Cache]

Typed ==
  /\ topic \in Seq([span : Spans, at : Nat]) /\ now \in Nat
  /\ committed \in 0..Len(topic)
  /\ job \in [Jobs -> JobRec]
  /\ \A j \in Jobs : job[j].upto <= Len(topic)
                     /\ job[j].fresh \cup job[j].envelopes \subseteq 1..job[j].upto
  /\ copies \in [Spans -> Nat]
  /\ parked \subseteq DOMAIN topic

Busy(j) == job[j].pc \in {"inserting", "sending"}

\* What a record's span is owed once the record is committed.
Settled(o) == IF SpanAt(o).sink = Rejected THEN o \in parked ELSE copies[SpanAt(o)] >= 1

\* A poll that may still commit belongs to the owner, and has in hand all that is
\* not settled of its records.
Covers(j) ==
  Busy(j) /\ ~job[j].stale =>
    /\ owner = j /\ committed <= job[j].upto
    /\ \A o \in committed + 1 .. job[j].upto :
         \/ Settled(o)
         \/ SpanAt(o).sink = Rejected /\ o \in job[j].envelopes
         \/ SpanAt(o).sink # Rejected /\ \E p \in job[j].fresh : SpanAt(p) = SpanAt(o)

\* What a table has acked is stored, and only what is stored is remembered.
Remembered(j) ==
  /\ \A p \in job[j].fresh :
       /\ SpanAt(p).sink # Rejected
       /\ (\E k \in 1..job[j].acked : Sinks[k] = SpanAt(p).sink) => copies[SpanAt(p)] >= 1
  /\ job[j].pc = "sending" => job[j].acked = Len(Sinks)
  /\ \A s \in Spans : Knows(job[j].recent, Key(s)) => copies[s] >= 1

EnricherInv == Typed /\ NothingLost /\ \A j \in Jobs : Covers(j) /\ Remembered(j)

LEMMA SpansTyped ==
  ASSUME Typed, NEW o \in DOMAIN topic
  PROVE  SpanAt(o) \in Spans /\ topic[o].at \in Nat /\ o \in Offsets
<1>1. topic \in Seq([span : Spans, at : Nat])
  BY DEF Typed
<1>2. DOMAIN topic = 1..Len(topic) /\ Len(topic) \in Nat
  BY <1>1, Elements
<1>3. o \in 1..Len(topic)
  BY <1>2
<1>4. topic[o] \in [span : Spans, at : Nat]
  BY <1>1, <1>3, Elements
<1>5. QED BY <1>2, <1>3, <1>4 DEF SpanAt, Offsets

LEMMA KeysDiffer ==
  ASSUME NEW s \in Spans, NEW t \in Spans, Key(s) = Key(t)
  PROVE  s = t
BY EnricherAssumption DEF Key

\* What goes is the front of the cache, each entry for a reason.
LEMMA ExpireCuts ==
  ASSUME NEW E, NEW seen \in Seq(E), NEW horizon
  PROVE  \E d \in 0..Len(seen) :
           /\ Expire(seen, horizon) \in Seq(E) /\ Len(Expire(seen, horizon)) = Len(seen) - d
           /\ \A i \in 1 .. Len(seen) - d : Expire(seen, horizon)[i] = seen[d + i]
           /\ \A i \in 1..d : Goes(seen, horizon, i)
<1>1. PICK kept : kept = {n \in DOMAIN seen : ~Goes(seen, horizon, n)}
  OBVIOUS
<1>2. Len(seen) \in Nat /\ DOMAIN seen = 1..Len(seen)
  OBVIOUS
<1>3. CASE kept = {}
  <2>1. Expire(seen, horizon) = <<>>
    BY <1>1, <1>3 DEF Expire
  <2>2. \A i \in 1..Len(seen) : Goes(seen, horizon, i)
    BY <1>1, <1>2, <1>3
  <2>3. PICK d : d = Len(seen)
    OBVIOUS
  <2>4. d \in 0..Len(seen) /\ Len(seen) - d = 0 /\ 1..0 = {}
    BY <1>2, <2>3
  <2>5. <<>> \in Seq(E) /\ Len(<<>>) = 0
    OBVIOUS
  <2>6. QED BY <2>1, <2>2, <2>3, <2>4, <2>5
<1>4. CASE kept # {}
  <2>1. PICK n : n = CHOOSE l \in kept : \A m \in kept : l <= m
    OBVIOUS
  <2>2. kept \in SUBSET Nat
    BY <1>1
  <2>3. n \in kept /\ \A m \in kept : n <= m
    BY <1>4, <2>1, <2>2, LeastNumber
  <2>4. n \in 1..Len(seen)
    BY <1>1, <2>3
  <2>5. Expire(seen, horizon) = SubSeq(seen, n, Len(seen))
    BY <1>1, <1>4, <2>1 DEF Expire
  <2>6. PICK rest, d : rest = SubSeq(seen, n, Len(seen)) /\ d = n - 1
    OBVIOUS
  <2>7. d \in 0..Len(seen) /\ Len(seen) - d = Len(seen) - n + 1 /\ n = d + 1
    BY <1>2, <2>4, <2>6
  <2>8. rest \in Seq(E) /\ Len(rest) = Len(seen) - d
    <3>1. n \in Nat /\ 1 <= n /\ n <= Len(seen) /\ Len(seen) \in Nat
      BY <2>4
    <3>2. QED BY <2>6, <2>7, <3>1
  <2>9. \A i \in 1 .. Len(seen) - d : rest[i] = seen[d + i]
    <3>1. n \in Nat /\ 1 <= n /\ n <= Len(seen) /\ Len(seen) \in Nat
      BY <2>4
    <3>2. ASSUME NEW i \in 1..Len(rest) PROVE rest[i] = seen[n + i - 1]
      BY <2>6, <2>8, <3>1
    <3>3. \A i \in 1..Len(rest) : n + i - 1 = d + i
      BY <2>7, <3>1
    <3>4. QED BY <2>8, <3>2, <3>3
  <2>10. ASSUME NEW i \in 1..d PROVE Goes(seen, horizon, i)
    <3>1. i \in 1..Len(seen) /\ ~(n <= i)
      BY <1>2, <2>4, <2>7
    <3>2. QED BY <1>1, <1>2, <2>3, <3>1
  <2>11. QED BY <2>5, <2>6, <2>7, <2>8, <2>9, <2>10
<1>5. QED BY <1>3, <1>4

\* No entry comes from elsewhere.
LEMMA ExpireDrops ==
  ASSUME NEW E, NEW seen \in Seq(E), NEW horizon
  PROVE  /\ Expire(seen, horizon) \in Seq(E)
         /\ \A i \in DOMAIN Expire(seen, horizon) :
              \E k \in DOMAIN seen : Expire(seen, horizon)[i] = seen[k]
<1>1. PICK d \in 0..Len(seen) :
        /\ Expire(seen, horizon) \in Seq(E) /\ Len(Expire(seen, horizon)) = Len(seen) - d
        /\ \A i \in 1 .. Len(seen) - d : Expire(seen, horizon)[i] = seen[d + i]
        /\ \A i \in 1..d : Goes(seen, horizon, i)
  BY ExpireCuts
<1>2. DOMAIN seen = 1..Len(seen) /\ Len(seen) \in Nat
  BY Elements
<1>3. DOMAIN Expire(seen, horizon) = 1 .. Len(seen) - d
  BY <1>1, Elements
<1>4. \A i \in 1 .. Len(seen) - d : d + i \in DOMAIN seen
  BY <1>2
<1>5. QED BY <1>1, <1>3, <1>4

\* What remembering does: the entries go in at their capped times, and the cache expires.
LEMMA RememberParts ==
  ASSUME NEW cache \in Cache, NEW stored \in Seq(Entry), NEW wall \in Nat
  PROVE  \E capped \in Seq(Entry) : \E newest \in Nat : \E h \in Nat :
           /\ Remember(cache, stored, wall) = [seen |-> Expire(cache.seen \o capped, h), newest |-> newest]
           /\ Len(capped) = Len(stored) /\ DOMAIN capped = DOMAIN stored
           /\ \A i \in DOMAIN stored : /\ capped[i].key = stored[i].key
                                       /\ capped[i].at = CappedAt(stored[i].at, wall)
           /\ cache.newest <= wall + MaxSkew => newest <= wall + MaxSkew
           /\ h = 0 \/ h = newest - Window
<1>1. PICK capped : capped = [i \in DOMAIN stored |-> [stored[i] EXCEPT !.at = CappedAt(@, wall)]]
  OBVIOUS
<1>2. MaxSkew \in Nat /\ Window \in Nat /\ cache.newest \in Nat
  BY DedupAssumption DEF Cache
<1>3. ASSUME NEW i \in DOMAIN stored
      PROVE  /\ capped[i] \in Entry /\ capped[i].key = stored[i].key
             /\ capped[i].at = CappedAt(stored[i].at, wall)
             /\ capped[i].at \in Nat /\ capped[i].at <= wall + MaxSkew
  <2>1. PICK e : e = stored[i]
    OBVIOUS
  <2>2. e \in Entry
    BY <2>1
  <2>3. CappedAt(e.at, wall) \in Nat /\ CappedAt(e.at, wall) <= wall + MaxSkew
    BY <1>2, <2>2 DEF CappedAt, Entry
  <2>4. capped[i] = [e EXCEPT !.at = CappedAt(e.at, wall)]
    BY <1>1, <2>1
  <2>5. QED BY <2>1, <2>2, <2>3, <2>4 DEF Entry
<1>4. capped \in Seq(Entry) /\ DOMAIN capped = DOMAIN stored /\ Len(capped) = Len(stored)
  <2>1. DOMAIN stored = 1..Len(stored) /\ Len(stored) \in Nat
    OBVIOUS
  <2>2. DOMAIN capped = 1..Len(stored) /\ capped \in [1..Len(stored) -> Entry]
    BY <1>1, <1>3, <2>1
  <2>3. QED BY <2>1, <2>2
<1>5. PICK times : times = {cache.newest} \cup {capped[i].at : i \in DOMAIN capped}
  OBVIOUS
<1>6. /\ times \in SUBSET Nat /\ times # {} /\ \A t \in times : t <= cache.newest + wall + MaxSkew
      /\ cache.newest <= wall + MaxSkew => \A t \in times : t <= wall + MaxSkew
  <2>1. ASSUME NEW t \in times
        PROVE  /\ t \in Nat /\ t <= cache.newest + wall + MaxSkew
               /\ cache.newest <= wall + MaxSkew => t <= wall + MaxSkew
    <3>1. CASE t = cache.newest
      BY <1>2, <3>1
    <3>2. CASE \E i \in DOMAIN stored : t = capped[i].at
      <4>1. t \in Nat /\ t <= wall + MaxSkew
        BY <1>3, <3>2
      <4>2. QED BY <1>2, <4>1
    <3>3. QED BY <1>4, <1>5, <2>1, <3>1, <3>2
  <2>2. QED BY <1>5, <2>1
<1>7. PICK newest : newest = CHOOSE t \in times : \A u \in times : u <= t
  OBVIOUS
<1>8. newest \in Nat /\ (cache.newest <= wall + MaxSkew => newest <= wall + MaxSkew)
  <2>1. cache.newest + wall + MaxSkew \in Nat
    BY <1>2
  <2>2. \E t \in times : \A u \in times : u <= t
    BY <1>6, <2>1, GreatestNumber
  <2>3. QED BY <1>6, <1>7, <2>2
<1>9. PICK h : h = IF newest >= Window THEN newest - Window ELSE 0
  OBVIOUS
<1>10. h \in Nat /\ (h = 0 \/ h = newest - Window)
  BY <1>2, <1>8, <1>9
<1>11. Remember(cache, stored, wall) = [seen |-> Expire(cache.seen \o capped, h), newest |-> newest]
  BY <1>1, <1>5, <1>7, <1>9 DEF Remember
<1>12. QED BY <1>3, <1>4, <1>8, <1>10, <1>11

LEMMA RememberKnows ==
  ASSUME NEW cache \in Cache, NEW stored \in Seq(Entry), NEW wall \in Nat
  PROVE  /\ Remember(cache, stored, wall) \in Cache
         /\ \A key : Knows(Remember(cache, stored, wall), key)
              => Knows(cache, key) \/ \E i \in DOMAIN stored : stored[i].key = key
<1>1. PICK capped \in Seq(Entry), newest \in Nat, h \in Nat :
        /\ Remember(cache, stored, wall) = [seen |-> Expire(cache.seen \o capped, h), newest |-> newest]
        /\ Len(capped) = Len(stored) /\ DOMAIN capped = DOMAIN stored
        /\ \A i \in DOMAIN stored : /\ capped[i].key = stored[i].key
                                    /\ capped[i].at = CappedAt(stored[i].at, wall)
        /\ cache.newest <= wall + MaxSkew => newest <= wall + MaxSkew
        /\ h = 0 \/ h = newest - Window
  BY RememberParts
<1>2. cache.seen \in Seq(Entry)
  BY DEF Cache
<1>3. PICK all : all = cache.seen \o capped
  OBVIOUS
<1>4. Remember(cache, stored, wall) = [seen |-> Expire(all, h), newest |-> newest]
  BY <1>1, <1>3
<1>5. all \in Seq(Entry)
  BY <1>1, <1>2, <1>3
<1>6. Expire(all, h) \in Seq(Entry)
       /\ \A i \in DOMAIN Expire(all, h) : \E k \in DOMAIN all : Expire(all, h)[i] = all[k]
  BY <1>5, ExpireDrops
<1>7. \A k \in DOMAIN all : \/ \E i \in DOMAIN cache.seen : all[k] = cache.seen[i]
                            \/ \E i \in DOMAIN capped : all[k] = capped[i]
  <2>1. PICK m : m = Len(cache.seen)
    OBVIOUS
  <2>2. /\ m \in Nat /\ Len(capped) \in Nat /\ Len(all) = m + Len(capped)
        /\ DOMAIN cache.seen = 1..m /\ DOMAIN capped = 1..Len(capped) /\ DOMAIN all = 1..Len(all)
    <3>1. /\ m \in Nat /\ Len(capped) \in Nat /\ DOMAIN cache.seen = 1..m
          /\ DOMAIN capped = 1..Len(capped) /\ DOMAIN all = 1..Len(all)
      BY <1>2, <1>5, <2>1
    <3>2. Len(all) = m + Len(capped)
      <4>1. all = cache.seen \o capped
        BY <1>3
      <4>2. QED BY <1>1, <1>2, <2>1, <4>1, Joined
    <3>3. QED BY <3>1, <3>2
  <2>3. ASSUME NEW k \in 1..m PROVE all[k] = cache.seen[k]
    BY <1>1, <1>2, <1>3, <2>1, <2>2
  <2>4. ASSUME NEW k \in 1..Len(all), k > m
        PROVE  all[k] = capped[k - m] /\ k - m \in 1..Len(capped)
    BY <1>1, <1>2, <1>3, <2>1, <2>2, <2>4
  <2>5. ASSUME NEW k \in 1..Len(all) PROVE k \in 1..m \/ k > m
    BY <2>2
  <2>6. QED BY <2>2, <2>3, <2>4, <2>5
<1>8. PICK new : new = Remember(cache, stored, wall)
  OBVIOUS
<1>9. new.seen = Expire(all, h) /\ new \in Cache
  BY <1>4, <1>6, <1>8 DEF Cache
<1>10. ASSUME NEW i \in DOMAIN new.seen
       PROVE  \/ \E k \in DOMAIN cache.seen : new.seen[i] = cache.seen[k]
              \/ \E k \in DOMAIN stored : new.seen[i].key = stored[k].key
  BY <1>1, <1>6, <1>7, <1>9
<1>11. \A key : Knows(new, key)
         => Knows(cache, key) \/ \E i \in DOMAIN stored : stored[i].key = key
  BY <1>10 DEF Knows
<1>12. QED BY <1>8, <1>9, <1>11

\* A poll's entries are one for each of its fresh records.
LEMMA EntriesAre ==
  ASSUME Typed, NEW offsets \in SUBSET (DOMAIN topic)
  PROVE  \E q : /\ DOMAIN q = DOMAIN Entries(offsets)
                /\ \A i \in DOMAIN q : /\ q[i] \in offsets
                                       /\ Entries(offsets)[i] = [key |-> Key(SpanAt(q[i])), at |-> topic[q[i]].at]
                /\ \A i, k \in DOMAIN q : q[i] = q[k] => i = k
                /\ \A o \in offsets : \E i \in DOMAIN q : q[i] = o
<1>1. PICK q : q = CHOOSE p \in [1..Cardinality(offsets) -> offsets] :
                     \A i, k \in DOMAIN p : i < k => p[i] < p[k]
  OBVIOUS
<1>2. PICK c : c = Cardinality(offsets)
  OBVIOUS
<1>3. Len(topic) \in Nat /\ DOMAIN topic = 1..Len(topic)
  BY DEF Typed
<1>4. c \in Nat /\ IsFiniteSet(offsets)
  <2>1. IsFiniteSet(1..Len(topic))
    BY <1>3, FS_Interval
  <2>2. QED BY <1>2, <1>3, <2>1, FS_Subset, FS_CardinalityType
<1>5. q \in [1..c -> offsets] /\ \A i, k \in 1..c : i < k => q[i] < q[k]
  <2>1. \E r : Increasing(offsets, r)
    BY <1>3, OrderExists
  <2>2. QED BY <1>1, <1>2, <2>1 DEF Increasing
<1>6. ASSUME NEW i \in 1..c, NEW k \in 1..c, q[i] = q[k] PROVE i = k
  <2>1. q[i] \in Nat /\ i \in Nat /\ k \in Nat
    BY <1>3, <1>4, <1>5
  <2>2. ~(q[i] < q[k]) /\ ~(q[k] < q[i])
    BY <1>6, <2>1
  <2>3. ~(i < k) /\ ~(k < i)
    BY <1>5, <2>2
  <2>4. QED BY <2>1, <2>3
<1>7. q \in Injection(1..c, offsets)
  BY <1>5, <1>6 DEF Injection, IsInjective
<1>8. Cardinality(1..c) = c
  BY <1>4, FS_Interval
<1>9. q \in Surjection(1..c, offsets)
  BY <1>2, <1>4, <1>7, <1>8, FS_Injection
<1>10. \A o \in offsets : \E i \in 1..c : q[i] = o
  BY <1>9 DEF Surjection
<1>11. Entries(offsets) = [i \in DOMAIN q |-> [key |-> Key(SpanAt(q[i])), at |-> topic[q[i]].at]]
  BY <1>1 DEF Entries
<1>12. QED BY <1>5, <1>6, <1>10, <1>11

\* The entries of a poll are those of its fresh records.
LEMMA EntriesTyped ==
  ASSUME Typed, NEW offsets \in SUBSET (DOMAIN topic)
  PROVE  /\ Entries(offsets) \in Seq(Entry)
         /\ \A i \in DOMAIN Entries(offsets) : \E o \in offsets : Entries(offsets)[i].key = Key(SpanAt(o))
<1>1. PICK q : q = CHOOSE p \in [1..Cardinality(offsets) -> offsets] :
                     \A i, k \in DOMAIN p : i < k => p[i] < p[k]
  OBVIOUS
<1>2. PICK c : c = Cardinality(offsets)
  OBVIOUS
<1>3. Len(topic) \in Nat /\ DOMAIN topic = 1..Len(topic)
  BY DEF Typed
<1>4. c \in Nat
  <2>1. IsFiniteSet(1..Len(topic))
    BY <1>3, FS_Interval
  <2>2. QED BY <1>2, <1>3, <2>1, FS_Subset, FS_CardinalityType
<1>5. q \in [1..c -> offsets]
  <2>1. \E r : Increasing(offsets, r)
    BY <1>3, OrderExists
  <2>2. QED BY <1>1, <1>2, <2>1 DEF Increasing
<1>6. \A o \in DOMAIN topic : SpanAt(o) \in Spans /\ topic[o].at \in Nat
  BY SpansTyped
<1>7. PICK e : e = [i \in DOMAIN q |-> [key |-> Key(SpanAt(q[i])), at |-> topic[q[i]].at]]
  OBVIOUS
<1>8. Entries(offsets) = e
  BY <1>1, <1>7 DEF Entries
<1>9. ASSUME NEW i \in 1..c
      PROVE  e[i] \in Entry /\ q[i] \in offsets /\ e[i].key = Key(SpanAt(q[i]))
  BY <1>5, <1>6, <1>7, <1>9 DEF Entry
<1>10. e \in Seq(Entry) /\ DOMAIN e = 1..c
  BY <1>4, <1>5, <1>7, <1>9
<1>11. QED BY <1>8, <1>9, <1>10

\* Of what a poll reads, the cache knows the span or a fresh record has it.
LEMMA FreshCovers ==
  ASSUME Typed, NEW polled \in SUBSET (DOMAIN topic), NEW recent, NEW o \in polled,
         SpanAt(o).sink # Rejected, ~Knows(recent, Key(SpanAt(o)))
  PROVE  \E p \in Fresh(polled, recent) : SpanAt(p) = SpanAt(o)
<1>1. PICK same : same = {p \in polled : SpanAt(p) = SpanAt(o)}
  OBVIOUS
<1>2. same \in SUBSET Nat /\ same # {}
  BY <1>1, SpansTyped DEF Offsets
<1>3. PICK p \in same : \A q \in same : p <= q
  BY <1>2, LeastNumber
<1>4. \A q \in polled : SpanAt(q) \in Spans /\ q \in Nat
  BY SpansTyped DEF Offsets
<1>5. ASSUME NEW q \in polled, q < p PROVE Key(SpanAt(q)) # Key(SpanAt(p))
  BY <1>1, <1>2, <1>3, <1>4, <1>5, KeysDiffer
<1>6. p \in Fresh(polled, recent)
  BY <1>1, <1>3, <1>5 DEF Fresh
<1>7. QED BY <1>1, <1>3, <1>6

-----------------------------------------------------------------------------
(* One step.                                                                 *)

\* Records stay where they are, and what is stored or parked stays so.
Grows ==
  /\ \A o \in DOMAIN topic : o \in DOMAIN topic' /\ SpanAt(o)' = SpanAt(o)
  /\ \A s \in Spans : copies'[s] >= copies[s]
  /\ parked \subseteq parked'

LEMMA TypedParts ==
  ASSUME Typed
  PROVE  /\ topic \in Seq([span : Spans, at : Nat]) /\ now \in Nat
         /\ Len(topic) \in Nat /\ DOMAIN topic = 1..Len(topic)
         /\ committed \in 0..Len(topic) /\ job \in [Jobs -> JobRec]
         /\ copies \in [Spans -> Nat] /\ parked \subseteq DOMAIN topic
<1>1. topic \in Seq([span : Spans, at : Nat])
  BY DEF Typed
<1>2. QED BY <1>1, Elements DEF Typed

LEMMA JobTyped ==
  ASSUME Typed, NEW j \in Jobs
  PROVE  /\ job[j] \in JobRec /\ job[j].upto \in Nat /\ job[j].upto <= Len(topic)
         /\ \A o \in job[j].fresh \cup job[j].envelopes :
              o \in 1..job[j].upto /\ o \in DOMAIN topic
         /\ \A o \in 1..job[j].upto : o \in DOMAIN topic
<1>1. job[j] \in JobRec /\ job[j].upto <= Len(topic)
      /\ job[j].fresh \cup job[j].envelopes \subseteq 1..job[j].upto
  BY DEF Typed
<1>2. job[j].upto \in Nat
  BY <1>1 DEF JobRec
<1>3. \A o \in 1..job[j].upto : o \in 1..Len(topic)
  BY <1>1, <1>2, TypedParts
<1>4. QED BY <1>1, <1>2, <1>3, TypedParts

LEMMA TypedMove ==
  ASSUME Typed, UNCHANGED broker, committed' \in 0..Len(topic),
         NEW j \in Jobs, NEW r \in JobRec, job' = [job EXCEPT ![j] = r],
         r.upto <= Len(topic), r.fresh \cup r.envelopes \subseteq 1..r.upto,
         copies' \in [Spans -> Nat], parked' \subseteq DOMAIN topic
  PROVE  Typed'
<1>1. job' \in [Jobs -> JobRec] /\ \A i \in Jobs : job'[i] = IF i = j THEN r ELSE job[i]
  BY TypedParts
<1>2. topic' = topic /\ now' = now
  BY DEF broker
<1>3. ASSUME NEW i \in Jobs
      PROVE  job'[i].upto <= Len(topic) /\ job'[i].fresh \cup job'[i].envelopes \subseteq 1..job'[i].upto
  BY <1>1 DEF Typed
<1>4. QED BY <1>1, <1>2, <1>3, TypedParts DEF Typed

LEMMA SettledStays ==
  ASSUME Typed, Grows, Typed', NEW o \in DOMAIN topic, Settled(o)
  PROVE  Settled(o)'
<1>1. SpanAt(o) \in Spans /\ SpanAt(o)' = SpanAt(o)
  BY SpansTyped DEF Grows
<1>2. copies'[SpanAt(o)] >= copies[SpanAt(o)] /\ parked \subseteq parked'
      /\ copies'[SpanAt(o)] \in Nat /\ copies[SpanAt(o)] \in Nat
  BY <1>1, TypedParts DEF Grows, Typed
<1>3. QED BY <1>1, <1>2 DEF Settled

LEMMA LostStays ==
  ASSUME EnricherInv, Grows, Typed', committed' = committed
  PROVE  NothingLost'
<1>1. \A o \in 1..committed : Settled(o) /\ o \in DOMAIN topic
  BY TypedParts DEF EnricherInv, NothingLost, Settled
<1>2. \A o \in 1..committed : Settled(o)'
  BY <1>1, SettledStays DEF EnricherInv
<1>3. QED BY <1>2 DEF NothingLost, Settled

LEMMA CoversStays ==
  ASSUME EnricherInv, Grows, Typed', committed' = committed, NEW j \in Jobs,
         Busy(j)' /\ ~job'[j].stale =>
           /\ Busy(j) /\ ~job[j].stale /\ (owner = j => owner' = j)
           /\ job'[j].upto = job[j].upto /\ job'[j].fresh = job[j].fresh
           /\ job'[j].envelopes = job[j].envelopes
  PROVE  Covers(j)'
<1>1. SUFFICES ASSUME Busy(j)', ~job'[j].stale PROVE Covers(j)'
  BY DEF Covers
<1>2. /\ owner = j /\ committed <= job[j].upto
      /\ \A o \in committed + 1 .. job[j].upto :
           \/ Settled(o)
           \/ SpanAt(o).sink = Rejected /\ o \in job[j].envelopes
           \/ SpanAt(o).sink # Rejected /\ \E p \in job[j].fresh : SpanAt(p) = SpanAt(o)
  BY <1>1 DEF EnricherInv, Covers
<1>3. \A o \in 1..job[j].upto : SpanAt(o)' = SpanAt(o) /\ (Settled(o) => Settled(o)')
  BY JobTyped, SettledStays DEF EnricherInv, Grows
<1>4. \A o \in committed + 1 .. job[j].upto : o \in 1..job[j].upto
  BY TypedParts, JobTyped DEF EnricherInv
<1>5. \A p \in job[j].fresh : SpanAt(p)' = SpanAt(p)
  BY JobTyped DEF EnricherInv, Grows
<1>6. \A o \in committed + 1 .. job[j].upto :
        \/ Settled(o)'
        \/ SpanAt(o)'.sink = Rejected /\ o \in job[j].envelopes
        \/ SpanAt(o)'.sink # Rejected /\ \E p \in job[j].fresh : SpanAt(p)' = SpanAt(o)'
  BY <1>2, <1>3, <1>4, <1>5
<1>7. QED BY <1>1, <1>2, <1>6 DEF Covers

LEMMA RememberedStays ==
  ASSUME EnricherInv, Grows, Typed', NEW j \in Jobs,
         job'[j].fresh = job[j].fresh, job'[j].acked = job[j].acked,
         job'[j].recent = job[j].recent,
         job'[j].pc = "sending" => job[j].pc = "sending" \/ job[j].acked = Len(Sinks)
  PROVE  Remembered(j)'
<1>1. Remembered(j)
  BY DEF EnricherInv
<1>2. \A s \in Spans : copies[s] >= 1 => copies'[s] >= 1
  BY TypedParts DEF EnricherInv, Grows, Typed
<1>3. \A p \in job[j].fresh : SpanAt(p)' = SpanAt(p) /\ SpanAt(p) \in Spans
  BY JobTyped, SpansTyped DEF EnricherInv, Grows
<1>4. \A p \in job[j].fresh :
        /\ SpanAt(p)'.sink # Rejected
        /\ (\E k \in 1..job[j].acked : Sinks[k] = SpanAt(p)'.sink) => copies'[SpanAt(p)'] >= 1
  BY <1>1, <1>2, <1>3 DEF Remembered
<1>5. \A s \in Spans : Knows(job[j].recent, Key(s)) => copies'[s] >= 1
  BY <1>1, <1>2 DEF Remembered
<1>6. QED BY <1>1, <1>4, <1>5 DEF Remembered

\* A process that goes, comes, or drops its poll has nothing in hand.
LEMMA EmptyHanded ==
  ASSUME EnricherInv, Grows, Typed', NEW j \in Jobs, ~Busy(j)', job'[j].fresh = {},
         job'[j].recent = EmptyCache \/ job'[j].recent = job[j].recent
  PROVE  Covers(j)' /\ Remembered(j)'
<1>1. Covers(j)'
  BY DEF Covers
<1>2. \A s \in Spans : copies[s] >= 1 => copies'[s] >= 1
  BY TypedParts DEF EnricherInv, Grows, Typed
<1>3. \A s \in Spans : Knows(job[j].recent, Key(s)) => copies[s] >= 1
  BY DEF EnricherInv, Remembered
<1>4. \A s \in Spans : ~Knows(EmptyCache, Key(s))
  BY DEF Knows, EmptyCache
<1>5. \A s \in Spans : Knows(job'[j].recent, Key(s)) => copies'[s] >= 1
  BY <1>2, <1>3, <1>4
<1>6. Remembered(j)'
  BY <1>5 DEF Remembered, Busy
<1>7. QED BY <1>1, <1>6

\* A step of one process that commits nothing.
LEMMA OneProcess ==
  ASSUME EnricherInv, Grows, Typed', committed' = committed, NEW j \in Jobs, NEW r,
         job' = [job EXCEPT ![j] = r], Covers(j)', Remembered(j)',
         \A i \in Jobs : i # j /\ owner = i => owner' = i
  PROVE  EnricherInv'
<1>1. ASSUME NEW i \in Jobs, i # j PROVE Covers(i)' /\ Remembered(i)'
  <2>1. job'[i] = job[i] /\ (Busy(i)' => Busy(i))
    BY <1>1, TypedParts DEF EnricherInv, Busy
  <2>2. Covers(i)'
    BY <1>1, <2>1, CoversStays
  <2>3. QED BY <2>1, <2>2, RememberedStays
<1>2. QED BY <1>1, LostStays DEF EnricherInv

\* A step of no process.
LEMMA NoProcess ==
  ASSUME EnricherInv, Grows, Typed', UNCHANGED <<committed, job, owner>>
  PROVE  EnricherInv'
<1>1. ASSUME NEW i \in Jobs PROVE Covers(i)' /\ Remembered(i)'
  <2>1. job'[i] = job[i] /\ (Busy(i)' => Busy(i))
    BY DEF Busy
  <2>2. Covers(i)'
    BY <2>1, CoversStays
  <2>3. QED BY <2>1, <2>2, RememberedStays
<1>2. QED BY <1>1, LostStays DEF EnricherInv

LEMMA TopicStays ==
  ASSUME Typed, UNCHANGED topic, parked \subseteq parked',
         copies' = copies \/ \E batch : \E n \in Nat : Land(batch, n)
  PROVE  Grows
<1>1. ASSUME NEW s \in Spans PROVE copies'[s] >= copies[s]
  <2>1. copies[s] \in Nat
    BY TypedParts
  <2>2. ASSUME NEW batch, NEW n \in Nat, Land(batch, n) PROVE copies'[s] >= copies[s]
    BY <2>1, <2>2 DEF Land
  <2>3. QED BY <2>1, <2>2
<1>2. QED BY <1>1 DEF Grows, SpanAt

-----------------------------------------------------------------------------
(* The actions.                                                              *)

LEMMA ProduceKeeps ==
  ASSUME EnricherInv, NEW s \in Spans, Produce(s)
  PROVE  EnricherInv'
<1>1. PICK r : r = [span |-> s, at |-> IF s \in Skewed THEN now + Ahead ELSE now]
  OBVIOUS
<1>2. r \in [span : Spans, at : Nat]
  BY <1>1, EnricherAssumption, TypedParts DEF EnricherInv
<1>3. topic' = Append(topic, r)
  BY <1>1 DEF Produce
<1>4. /\ topic' \in Seq([span : Spans, at : Nat]) /\ Len(topic') = Len(topic) + 1
      /\ \A o \in DOMAIN topic : o \in DOMAIN topic' /\ topic'[o] = topic[o]
  BY <1>2, <1>3, TypedParts DEF EnricherInv
<1>5. UNCHANGED <<now, committed, owner, job, copies, parked>>
  BY DEF Produce, stores
<1>6. Typed'
  <2>1. /\ committed' \in 0..Len(topic') /\ parked' \subseteq DOMAIN topic' /\ now' \in Nat
        /\ job' \in [Jobs -> JobRec] /\ copies' \in [Spans -> Nat]
    BY <1>4, <1>5, TypedParts DEF EnricherInv
  <2>2. ASSUME NEW j \in Jobs
        PROVE  /\ job'[j].upto <= Len(topic')
               /\ job'[j].fresh \cup job'[j].envelopes \subseteq 1..job'[j].upto
    <3>1. /\ job[j].upto <= Len(topic) /\ job[j].upto \in Nat /\ Len(topic) \in Nat
          /\ job[j].fresh \cup job[j].envelopes \subseteq 1..job[j].upto
      BY JobTyped, TypedParts DEF EnricherInv, Typed
    <3>2. QED BY <1>4, <1>5, <3>1
  <2>3. QED BY <1>4, <2>1, <2>2 DEF Typed
<1>7. Grows
  BY <1>4, <1>5, TypedParts DEF Grows, SpanAt, EnricherInv
<1>8. QED BY <1>5, <1>6, <1>7, NoProcess

LEMMA TickKeeps ==
  ASSUME EnricherInv, Tick
  PROVE  EnricherInv'
<1>1. UNCHANGED <<topic, committed, owner, job, copies, parked>> /\ now' \in Nat
  BY TypedParts DEF Tick, stores, EnricherInv
<1>2. Typed'
  BY <1>1 DEF Typed, EnricherInv
<1>3. Grows
  BY <1>1, TopicStays DEF EnricherInv
<1>4. QED BY <1>1, <1>2, <1>3, NoProcess

LEMMA DownTyped ==
  /\ Down \in JobRec /\ [Down EXCEPT !.pc = "idle"] \in JobRec
  /\ \A r \in {Down, [Down EXCEPT !.pc = "idle"]} :
       /\ r.pc \notin {"inserting", "sending"} /\ r.fresh = {} /\ r.envelopes = {}
       /\ r.upto = 0 /\ r.recent = EmptyCache
<1>1. EmptyCache \in Cache
  BY DEF EmptyCache, Cache
<1>2. 0 \in 0..Len(Sinks)
  <2>1. Sinks \in Seq(Range(Sinks))
    BY EnricherAssumption
  <2>2. QED BY <2>1, Elements
<1>3. PICK d, i : d = Down /\ i = [d EXCEPT !.pc = "idle"]
  OBVIOUS
<1>4. /\ d \in JobRec /\ d.pc = "down" /\ d.fresh = {} /\ d.envelopes = {}
      /\ d.upto = 0 /\ d.recent = EmptyCache
  <2>1. d = [pc |-> "down", upto |-> 0, stale |-> FALSE, stopping |-> FALSE,
             fresh |-> {}, acked |-> 0, envelopes |-> {}, recent |-> EmptyCache]
    BY <1>3 DEF Down
  <2>2. QED BY <1>1, <1>2, <2>1 DEF JobRec, PCs
<1>5. /\ i \in JobRec /\ i.pc = "idle" /\ i.fresh = {} /\ i.envelopes = {}
      /\ i.upto = 0 /\ i.recent = EmptyCache
  BY <1>3, <1>4 DEF JobRec, PCs
<1>6. QED BY <1>3, <1>4, <1>5

\* A process goes, comes, or is done with its poll.
LEMMA DropKeeps ==
  ASSUME EnricherInv, UNCHANGED <<broker, committed, stores>>,
         NEW j \in Jobs, NEW r \in JobRec, job' = [job EXCEPT ![j] = r],
         r.pc \notin {"inserting", "sending"}, r.fresh = {}, r.envelopes = {},
         r.upto <= Len(topic), r.recent = EmptyCache \/ r.recent = job[j].recent,
         \A i \in Jobs : i # j /\ owner = i => owner' = i
  PROVE  EnricherInv'
<1>1. topic' = topic /\ copies' = copies /\ parked' = parked /\ committed' = committed
  BY DEF broker, stores
<1>2. job'[j] = r
  BY TypedParts DEF EnricherInv
<1>3. Typed'
  BY <1>1, TypedMove, TypedParts DEF EnricherInv
<1>4. Grows
  BY <1>1, TopicStays DEF EnricherInv
<1>5. Covers(j)' /\ Remembered(j)'
  BY <1>2, <1>3, <1>4, EmptyHanded DEF Busy
<1>6. QED BY <1>1, <1>3, <1>4, <1>5, OneProcess

LEMMA StartsKeeps ==
  ASSUME EnricherInv, NEW j \in Jobs, Starts(j)
  PROVE  EnricherInv'
<1>1. PICK r : r = [Down EXCEPT !.pc = "idle"]
  OBVIOUS
<1>2. /\ r \in JobRec /\ r.pc \notin {"inserting", "sending"} /\ r.fresh = {} /\ r.envelopes = {}
      /\ r.upto = 0 /\ r.recent = EmptyCache
  BY <1>1, DownTyped
<1>3. /\ job' = [job EXCEPT ![j] = r] /\ UNCHANGED <<broker, committed, stores, owner>>
      /\ r.upto <= Len(topic)
  BY <1>1, <1>2, TypedParts DEF Starts, EnricherInv
<1>4. QED BY <1>2, <1>3, DropKeeps

LEMMA LeavesKeeps ==
  ASSUME EnricherInv, NEW j \in Jobs, Leaves(j)
  PROVE  EnricherInv'
<1>1. PICK r : r = Down
  OBVIOUS
<1>2. /\ r \in JobRec /\ r.pc \notin {"inserting", "sending"} /\ r.fresh = {} /\ r.envelopes = {}
      /\ r.upto = 0 /\ r.recent = EmptyCache
  BY <1>1, DownTyped
<1>3. /\ job' = [job EXCEPT ![j] = r] /\ UNCHANGED <<broker, committed, stores>>
      /\ r.upto <= Len(topic) /\ \A i \in Jobs : i # j /\ owner = i => owner' = i
  BY <1>1, <1>2, TypedParts DEF Leaves, EnricherInv
<1>4. QED BY <1>2, <1>3, DropKeeps

LEMMA RequestStopKeeps ==
  ASSUME EnricherInv, NEW j \in Jobs, RequestStop(j)
  PROVE  EnricherInv'
<1>1. PICK k, r : k = job[j] /\ r = [k EXCEPT !.stopping = TRUE]
  OBVIOUS
<1>2. k \in JobRec /\ k.upto <= Len(topic) /\ k.fresh \cup k.envelopes \subseteq 1..k.upto
  BY <1>1 DEF EnricherInv, Typed
<1>3. /\ r \in JobRec /\ r.pc = k.pc /\ r.stale = k.stale /\ r.upto = k.upto /\ r.fresh = k.fresh
      /\ r.envelopes = k.envelopes /\ r.acked = k.acked /\ r.recent = k.recent
  BY <1>1, <1>2 DEF JobRec
<1>4. job' = [job EXCEPT ![j] = r] /\ job'[j] = r /\ UNCHANGED <<broker, committed, stores, owner>>
  BY <1>1, TypedParts DEF RequestStop, EnricherInv
<1>5. topic' = topic /\ copies' = copies /\ parked' = parked /\ committed' = committed
  BY <1>4 DEF broker, stores
<1>6. Typed'
  BY <1>2, <1>3, <1>4, <1>5, TypedMove, TypedParts DEF EnricherInv
<1>7. Grows
  BY <1>5, TopicStays DEF EnricherInv
<1>8. Busy(j)' => Busy(j)
  BY <1>1, <1>3, <1>4 DEF Busy
<1>9. Covers(j)'
  BY <1>1, <1>3, <1>4, <1>5, <1>6, <1>7, <1>8, CoversStays
<1>10. Remembered(j)'
  BY <1>1, <1>3, <1>4, <1>6, <1>7, RememberedStays
<1>11. QED BY <1>4, <1>5, <1>6, <1>7, <1>9, <1>10, OneProcess

LEMMA AssignKeeps ==
  ASSUME EnricherInv, NEW j \in Jobs, Assign(j)
  PROVE  EnricherInv'
<1>1. topic' = topic /\ now' = now /\ copies' = copies /\ parked' = parked /\ committed' = committed
  BY DEF Assign, broker, stores
<1>2. ASSUME NEW i \in Jobs
      PROVE  /\ job'[i] \in JobRec /\ job'[i].pc = job[i].pc /\ job'[i].upto = job[i].upto
             /\ job'[i].fresh = job[i].fresh /\ job'[i].envelopes = job[i].envelopes
             /\ job'[i].acked = job[i].acked /\ job'[i].recent = job[i].recent
             /\ Busy(i)' => job'[i].stale
  <2>1. PICK k : k = job[i]
    OBVIOUS
  <2>2. k \in JobRec
    BY <2>1, JobTyped DEF EnricherInv
  <2>3. job'[i] = [k EXCEPT !.stale = k.pc \notin {"down", "idle"}]
    BY <2>1 DEF Assign
  <2>4. /\ job'[i] \in JobRec /\ job'[i].pc = k.pc /\ job'[i].upto = k.upto
        /\ job'[i].fresh = k.fresh /\ job'[i].envelopes = k.envelopes
        /\ job'[i].acked = k.acked /\ job'[i].recent = k.recent
        /\ job'[i].stale <=> k.pc \notin {"down", "idle"}
    BY <2>2, <2>3 DEF JobRec
  <2>5. Busy(i)' => job'[i].stale
    BY <2>4 DEF Busy
  <2>6. QED BY <2>1, <2>4, <2>5
<1>3. Typed'
  <2>1. job' \in [Jobs -> JobRec]
    <3>1. job' = [i \in Jobs |-> job'[i]]
      BY DEF Assign
    <3>2. QED BY <1>2, <3>1
  <2>2. QED BY <1>1, <1>2, <2>1 DEF EnricherInv, Typed
<1>4. Grows
  BY <1>1, TopicStays DEF EnricherInv
<1>5. ASSUME NEW i \in Jobs PROVE Covers(i)' /\ Remembered(i)'
  <2>1. Covers(i)'
    BY <1>2 DEF Covers
  <2>2. QED BY <1>2, <1>3, <1>4, <2>1, RememberedStays
<1>6. QED BY <1>1, <1>3, <1>4, <1>5, LostStays DEF EnricherInv

LEMMA PollKeeps ==
  ASSUME EnricherInv, NEW j \in Jobs, Poll(j)
  PROVE  EnricherInv'
<1>1. PICK upto \in committed + 1 .. Len(topic) :
        job' = [job EXCEPT ![j] =
                  [@ EXCEPT !.pc = "inserting", !.upto = upto, !.stale = FALSE, !.acked = 0,
                            !.fresh = Fresh(committed + 1 .. upto, job[j].recent),
                            !.envelopes = {o \in committed + 1 .. upto : SpanAt(o).sink = Rejected}]]
  BY DEF Poll
<1>2. PICK polled : polled = committed + 1 .. upto
  OBVIOUS
<1>3. /\ upto \in Nat /\ committed < upto /\ upto <= Len(topic)
      /\ polled \in SUBSET (DOMAIN topic) /\ polled \in SUBSET Offsets /\ polled \subseteq 1..upto
  <2>1. upto \in Nat /\ committed < upto /\ upto <= Len(topic) /\ committed \in Nat
    BY TypedParts DEF EnricherInv
  <2>2. ASSUME NEW o \in polled PROVE o \in 1..upto /\ o \in DOMAIN topic /\ o \in Offsets
    BY <1>2, <2>1, TypedParts DEF EnricherInv, Offsets
  <2>3. QED BY <2>1, <2>2
<1>4. PICK fresh, envelopes : /\ fresh = Fresh(polled, job[j].recent)
                              /\ envelopes = {o \in polled : SpanAt(o).sink = Rejected}
  OBVIOUS
<1>5. fresh \subseteq polled /\ envelopes \subseteq polled
  BY <1>4 DEF Fresh
<1>6. PICK k, r : /\ k = job[j]
        /\ r = [k EXCEPT !.pc = "inserting", !.upto = upto, !.stale = FALSE, !.acked = 0,
                         !.fresh = fresh, !.envelopes = envelopes]
  OBVIOUS
<1>7. 0 \in 0..Len(Sinks)
  <2>1. Sinks \in Seq(Range(Sinks))
    BY EnricherAssumption
  <2>2. QED BY <2>1, Elements
<1>8. k \in JobRec
  BY <1>6, JobTyped DEF EnricherInv
<1>9. fresh \in SUBSET Offsets /\ envelopes \in SUBSET Offsets
  BY <1>3, <1>5
<1>10. /\ r \in JobRec /\ r.pc = "inserting" /\ r.upto = upto /\ r.stale = FALSE /\ r.acked = 0
       /\ r.fresh = fresh /\ r.envelopes = envelopes /\ r.recent = k.recent
  BY <1>3, <1>6, <1>7, <1>8, <1>9 DEF JobRec, PCs
<1>11. job' = [job EXCEPT ![j] = r] /\ job'[j] = r
  BY <1>1, <1>2, <1>4, <1>6, TypedParts DEF EnricherInv
<1>12. /\ topic' = topic /\ copies' = copies /\ parked' = parked /\ committed' = committed
       /\ owner' = owner /\ owner = j /\ UNCHANGED broker
  BY DEF Poll, broker, stores
<1>13. Typed'
  <2>1. r.fresh \cup r.envelopes \subseteq 1..r.upto /\ r.upto <= Len(topic)
    BY <1>3, <1>5, <1>10
  <2>2. QED BY <1>10, <1>11, <1>12, <2>1, TypedMove, TypedParts DEF EnricherInv
<1>14. Grows
  BY <1>12, TopicStays DEF EnricherInv
<1>15. \A s \in Spans : Knows(job[j].recent, Key(s)) => copies[s] >= 1
  BY DEF EnricherInv, Remembered
<1>16. ASSUME NEW o \in polled
       PROVE  \/ Settled(o)
              \/ SpanAt(o).sink = Rejected /\ o \in envelopes
              \/ SpanAt(o).sink # Rejected /\ \E p \in fresh : SpanAt(p) = SpanAt(o)
  <2>1. CASE SpanAt(o).sink = Rejected
    BY <1>4, <2>1
  <2>2. CASE SpanAt(o).sink # Rejected /\ Knows(job[j].recent, Key(SpanAt(o)))
    <3>1. SpanAt(o) \in Spans
      BY <1>3, SpansTyped DEF EnricherInv
    <3>2. QED BY <1>15, <2>2, <3>1 DEF Settled
  <2>3. CASE SpanAt(o).sink # Rejected /\ ~Knows(job[j].recent, Key(SpanAt(o)))
    BY <1>3, <1>4, <2>3, FreshCovers DEF EnricherInv
  <2>4. QED BY <2>1, <2>2, <2>3
<1>17. Covers(j)'
  <2>1. \A o : SpanAt(o)' = SpanAt(o) /\ Settled(o)' = Settled(o)
    BY <1>12 DEF SpanAt, Settled
  <2>2. committed' + 1 .. job'[j].upto = polled
    BY <1>2, <1>10, <1>11, <1>12
  <2>3. owner' = j /\ committed' <= job'[j].upto
    BY <1>3, <1>10, <1>11, <1>12, TypedParts DEF EnricherInv
  <2>4. QED BY <1>10, <1>11, <1>16, <2>1, <2>2, <2>3 DEF Covers
<1>18. Remembered(j)'
  <2>1. \A p \in fresh : SpanAt(p)'.sink # Rejected
    BY <1>4, <1>12 DEF Fresh, SpanAt
  <2>2. 1..0 = {}
    OBVIOUS
  <2>3. QED BY <1>6, <1>10, <1>11, <1>12, <1>15, <2>1, <2>2 DEF Remembered
<1>19. QED BY <1>11, <1>12, <1>13, <1>14, <1>17, <1>18, OneProcess

LEMMA LandTyped ==
  ASSUME Typed, NEW batch, NEW n \in Nat, Land(batch, n)
  PROVE  copies' \in [Spans -> Nat] /\ \A s \in Spans : s \in batch => copies'[s] >= n
BY TypedParts DEF Land

\* A table acks, its batch landing once or twice.
LEMMA AckKeeps ==
  ASSUME EnricherInv, NEW j \in Jobs, Inserting(j), NEW n \in Nat \ {0}, Land(Batch(j), n),
         job' = [job EXCEPT ![j].acked = @ + 1], UNCHANGED <<broker, committed, owner, parked>>
  PROVE  EnricherInv'
<1>1. PICK k, r : k = job[j] /\ r = [k EXCEPT !.acked = @ + 1]
  OBVIOUS
<1>2. k \in JobRec /\ k.upto <= Len(topic) /\ k.fresh \cup k.envelopes \subseteq 1..k.upto
      /\ k.pc = "inserting" /\ k.acked < Len(Sinks)
  BY <1>1 DEF EnricherInv, Typed, Inserting
<1>3. Len(Sinks) \in Nat
  <2>1. Sinks \in Seq(Range(Sinks))
    BY EnricherAssumption
  <2>2. QED BY <2>1, Elements
<1>4. k.acked \in Nat /\ k.acked + 1 \in 0..Len(Sinks)
  BY <1>2, <1>3 DEF JobRec
<1>5. /\ r \in JobRec /\ r.pc = k.pc /\ r.stale = k.stale /\ r.upto = k.upto /\ r.fresh = k.fresh
      /\ r.envelopes = k.envelopes /\ r.acked = k.acked + 1 /\ r.recent = k.recent
  BY <1>1, <1>2, <1>4 DEF JobRec
<1>6. job' = [job EXCEPT ![j] = r] /\ job'[j] = r
  BY <1>1, TypedParts DEF EnricherInv
<1>7. topic' = topic /\ parked' = parked
  BY DEF broker
<1>8. Typed'
  <2>1. copies' \in [Spans -> Nat]
    BY LandTyped DEF EnricherInv
  <2>2. parked' \subseteq DOMAIN topic /\ committed' \in 0..Len(topic)
    BY <1>7, TypedParts DEF EnricherInv
  <2>3. r.upto <= Len(topic) /\ r.fresh \cup r.envelopes \subseteq 1..r.upto
    BY <1>2, <1>5
  <2>4. QED BY <1>5, <1>6, <2>1, <2>2, <2>3, TypedMove DEF EnricherInv
<1>9. Grows
  BY <1>7, TopicStays DEF EnricherInv
<1>10. Busy(j)' => Busy(j)
  BY <1>1, <1>5, <1>6 DEF Busy
<1>11. Covers(j)'
  BY <1>1, <1>5, <1>6, <1>8, <1>9, <1>10, CoversStays
<1>12. Remembered(j)
  BY DEF EnricherInv
<1>13. \A s \in Spans : copies[s] >= 1 => copies'[s] >= 1
  BY <1>8, TypedParts DEF EnricherInv, Grows, Typed, Land
<1>14. ASSUME NEW p \in k.fresh
       PROVE  /\ SpanAt(p)'.sink # Rejected
              /\ (\E i \in 1..(k.acked + 1) : Sinks[i] = SpanAt(p)'.sink) => copies'[SpanAt(p)'] >= 1
  <2>1. SpanAt(p)' = SpanAt(p) /\ SpanAt(p) \in Spans
    BY <1>1, <1>7, JobTyped, SpansTyped DEF EnricherInv, SpanAt
  <2>2. /\ SpanAt(p).sink # Rejected
        /\ (\E i \in 1..k.acked : Sinks[i] = SpanAt(p).sink) => copies[SpanAt(p)] >= 1
    BY <1>1, <1>12 DEF Remembered
  <2>3. Sinks[k.acked + 1] = SpanAt(p).sink => SpanAt(p) \in Batch(j)
    BY <1>1 DEF Batch
  <2>4. SpanAt(p) \in Batch(j) => copies'[SpanAt(p)] >= 1
    BY <1>8, <2>1, LandTyped DEF EnricherInv, Typed
  <2>5. \A i \in 1..(k.acked + 1) : i \in 1..k.acked \/ i = k.acked + 1
    BY <1>4
  <2>6. QED BY <1>13, <2>1, <2>2, <2>3, <2>4, <2>5
<1>15. \A s \in Spans : Knows(k.recent, Key(s)) => copies'[s] >= 1
  BY <1>1, <1>12, <1>13 DEF Remembered
<1>16. Remembered(j)'
  BY <1>2, <1>5, <1>6, <1>14, <1>15 DEF Remembered
<1>17. QED BY <1>6, <1>8, <1>9, <1>11, <1>16, OneProcess

LEMMA InsertFailsKeeps ==
  ASSUME EnricherInv, NEW j \in Jobs, InsertFails(j)
  PROVE  EnricherInv'
<1>1. PICK landed : Land(landed, 1)
  BY DEF InsertFails
<1>2. UNCHANGED <<topic, now, committed, owner, job, parked>>
  BY DEF InsertFails, broker
<1>3. Typed'
  <2>1. copies' \in [Spans -> Nat]
    BY <1>1, LandTyped DEF EnricherInv
  <2>2. QED BY <1>2, <2>1 DEF EnricherInv, Typed
<1>4. Grows
  BY <1>1, <1>2, TopicStays DEF EnricherInv
<1>5. QED BY <1>2, <1>3, <1>4, NoProcess

\* What a poll had to store, once every table has acked.
LEMMA StoredOnceAcked ==
  ASSUME EnricherInv, NEW j \in Jobs, job[j].acked = Len(Sinks), NEW o \in job[j].fresh
  PROVE  SpanAt(o) \in Spans /\ SpanAt(o).sink # Rejected /\ copies[SpanAt(o)] >= 1
<1>1. SpanAt(o) \in Spans
  BY JobTyped, SpansTyped DEF EnricherInv
<1>2. /\ SpanAt(o).sink # Rejected
      /\ (\E i \in 1..job[j].acked : Sinks[i] = SpanAt(o).sink) => copies[SpanAt(o)] >= 1
  BY DEF EnricherInv, Remembered
<1>3. SpanAt(o).sink \in Range(Sinks)
  BY <1>1, <1>2, EnricherAssumption
<1>4. \E i \in 1..Len(Sinks) : Sinks[i] = SpanAt(o).sink
  <2>1. Sinks \in Seq(Range(Sinks))
    BY EnricherAssumption
  <2>2. DOMAIN Sinks = 1..Len(Sinks)
    BY <2>1, Elements
  <2>3. QED BY <1>3, <2>2 DEF Range
<1>5. QED BY <1>1, <1>2, <1>4

LEMMA RemembersKeeps ==
  ASSUME EnricherInv, NEW j \in Jobs, Remembers(j)
  PROVE  EnricherInv'
<1>1. PICK k, recent, r : /\ k = job[j] /\ recent = Remember(k.recent, Entries(k.fresh), now)
                          /\ r = [k EXCEPT !.pc = "sending", !.recent = recent]
  OBVIOUS
<1>2. k \in JobRec /\ k.upto <= Len(topic) /\ k.fresh \cup k.envelopes \subseteq 1..k.upto
      /\ k.pc = "inserting" /\ k.acked = Len(Sinks)
  BY <1>1 DEF EnricherInv, Typed, Remembers
<1>3. k.fresh \in SUBSET (DOMAIN topic) /\ now \in Nat /\ k.recent \in Cache
  BY <1>1, <1>2, JobTyped, TypedParts DEF EnricherInv, JobRec
<1>4. /\ Entries(k.fresh) \in Seq(Entry)
      /\ \A i \in DOMAIN Entries(k.fresh) : \E o \in k.fresh : Entries(k.fresh)[i].key = Key(SpanAt(o))
  BY <1>3, EntriesTyped DEF EnricherInv
<1>5. /\ recent \in Cache
      /\ \A key : Knows(recent, key)
           => Knows(k.recent, key) \/ \E i \in DOMAIN Entries(k.fresh) : Entries(k.fresh)[i].key = key
  BY <1>1, <1>3, <1>4, RememberKnows
<1>6. /\ r \in JobRec /\ r.pc = "sending" /\ r.stale = k.stale /\ r.upto = k.upto
      /\ r.fresh = k.fresh /\ r.envelopes = k.envelopes /\ r.acked = k.acked /\ r.recent = recent
  BY <1>1, <1>2, <1>5 DEF JobRec, PCs
<1>7. job' = [job EXCEPT ![j] = r] /\ job'[j] = r
  BY <1>1, TypedParts DEF EnricherInv, Remembers
<1>8. /\ topic' = topic /\ copies' = copies /\ parked' = parked /\ committed' = committed
      /\ owner' = owner /\ UNCHANGED broker
  BY DEF Remembers, broker, stores
<1>9. Typed'
  BY <1>2, <1>6, <1>7, <1>8, TypedMove, TypedParts DEF EnricherInv
<1>10. Grows
  BY <1>8, TopicStays DEF EnricherInv
<1>11. Busy(j)
  BY <1>1, <1>2 DEF Busy
<1>12. Covers(j)'
  BY <1>1, <1>6, <1>7, <1>8, <1>9, <1>10, <1>11, CoversStays
<1>13. Remembered(j)
  BY DEF EnricherInv
<1>14. ASSUME NEW o \in k.fresh
       PROVE  SpanAt(o) \in Spans /\ SpanAt(o).sink # Rejected /\ copies[SpanAt(o)] >= 1
  BY <1>1, <1>2, StoredOnceAcked
<1>15. ASSUME NEW s \in Spans, Knows(recent, Key(s)) PROVE copies[s] >= 1
  <2>1. CASE Knows(k.recent, Key(s))
    BY <1>1, <1>13, <2>1 DEF Remembered
  <2>2. CASE \E i \in DOMAIN Entries(k.fresh) : Entries(k.fresh)[i].key = Key(s)
    <3>1. PICK o \in k.fresh : Key(SpanAt(o)) = Key(s)
      BY <1>4, <2>2
    <3>2. SpanAt(o) = s
      BY <1>14, <3>1, KeysDiffer
    <3>3. QED BY <1>14, <3>2
  <2>3. QED BY <1>5, <1>15, <2>1, <2>2
<1>16. Remembered(j)'
  <2>1. \A o : SpanAt(o)' = SpanAt(o)
    BY <1>8 DEF SpanAt
  <2>2. QED BY <1>2, <1>6, <1>7, <1>8, <1>14, <1>15, <2>1 DEF Remembered
<1>17. QED BY <1>7, <1>8, <1>9, <1>10, <1>12, <1>16, OneProcess

LEMMA SendsKeeps ==
  ASSUME EnricherInv, NEW j \in Jobs, Sends(j)
  PROVE  EnricherInv'
<1>1. PICK o \in job[j].envelopes : /\ parked' = parked \cup {o}
                                    /\ job' = [job EXCEPT ![j].envelopes = @ \ {o}]
  BY DEF Sends
<1>2. PICK k, r : k = job[j] /\ r = [k EXCEPT !.envelopes = @ \ {o}]
  OBVIOUS
<1>3. k \in JobRec /\ k.upto <= Len(topic) /\ k.fresh \cup k.envelopes \subseteq 1..k.upto
      /\ k.pc = "sending" /\ o \in DOMAIN topic
  BY <1>2, JobTyped DEF EnricherInv, Typed, Sends
<1>4. /\ r \in JobRec /\ r.pc = "sending" /\ r.stale = k.stale /\ r.upto = k.upto
      /\ r.fresh = k.fresh /\ r.envelopes = k.envelopes \ {o} /\ r.acked = k.acked
      /\ r.recent = k.recent
  BY <1>2, <1>3 DEF JobRec
<1>5. job' = [job EXCEPT ![j] = r] /\ job'[j] = r
  BY <1>1, <1>2, TypedParts DEF EnricherInv
<1>6. topic' = topic /\ copies' = copies /\ committed' = committed /\ owner' = owner
      /\ UNCHANGED broker /\ parked' = parked \cup {o}
  BY <1>1 DEF Sends, broker
<1>7. Typed'
  <2>1. r.fresh \cup r.envelopes \subseteq 1..r.upto /\ parked' \subseteq DOMAIN topic
    BY <1>3, <1>4, <1>6, TypedParts DEF EnricherInv
  <2>2. QED BY <1>3, <1>4, <1>5, <1>6, <2>1, TypedMove, TypedParts DEF EnricherInv
<1>8. Grows
  BY <1>6, TopicStays DEF EnricherInv
<1>9. Remembered(j)'
  BY <1>2, <1>3, <1>4, <1>5, <1>7, <1>8, RememberedStays
<1>10. Covers(j)'
  <2>1. SUFFICES ASSUME ~k.stale PROVE Covers(j)'
    BY <1>4, <1>5 DEF Covers
  <2>2. /\ owner = j /\ committed <= k.upto
        /\ \A p \in committed + 1 .. k.upto :
             \/ Settled(p)
             \/ SpanAt(p).sink = Rejected /\ p \in k.envelopes
             \/ SpanAt(p).sink # Rejected /\ \E q \in k.fresh : SpanAt(q) = SpanAt(p)
    BY <1>2, <1>3, <2>1 DEF EnricherInv, Covers, Busy
  <2>3. \A p : SpanAt(p)' = SpanAt(p)
    BY <1>6 DEF SpanAt
  <2>4. \A p : Settled(p) \/ (p = o /\ SpanAt(p).sink = Rejected) => Settled(p)'
    BY <1>6, <2>3 DEF Settled
  <2>5. \A p \in committed + 1 .. k.upto :
          \/ Settled(p)'
          \/ SpanAt(p)'.sink = Rejected /\ p \in r.envelopes
          \/ SpanAt(p)'.sink # Rejected /\ \E q \in r.fresh : SpanAt(q)' = SpanAt(p)'
    BY <1>4, <2>2, <2>3, <2>4
  <2>6. QED BY <1>4, <1>5, <1>6, <2>2, <2>5 DEF Covers
<1>11. QED BY <1>5, <1>6, <1>7, <1>8, <1>9, <1>10, OneProcess

LEMMA CommitsKeeps ==
  ASSUME EnricherInv, NEW j \in Jobs, Commits(j)
  PROVE  EnricherInv'
<1>1. PICK k, r : /\ k = job[j]
                  /\ r = [k EXCEPT !.pc = "idle", !.upto = 0, !.stale = FALSE, !.fresh = {}, !.acked = 0]
  OBVIOUS
<1>2. k \in JobRec /\ k.upto \in Nat /\ k.upto <= Len(topic) /\ k.pc = "sending" /\ k.envelopes = {}
      /\ Len(topic) \in Nat
  BY <1>1, JobTyped, TypedParts DEF EnricherInv, Commits
<1>3. 0 \in 0..Len(Sinks)
  <2>1. Sinks \in Seq(Range(Sinks))
    BY EnricherAssumption
  <2>2. QED BY <2>1, Elements
<1>4. /\ r \in JobRec /\ r.pc = "idle" /\ r.upto = 0 /\ r.fresh = {} /\ r.envelopes = {}
      /\ r.recent = k.recent
  BY <1>1, <1>2, <1>3 DEF JobRec, PCs
<1>5. job' = [job EXCEPT ![j] = r] /\ job'[j] = r
  BY <1>1, TypedParts DEF EnricherInv, Commits, EndsPoll
<1>6. UNCHANGED <<broker, owner, stores>> /\ topic' = topic /\ copies' = copies /\ parked' = parked
      /\ committed' = IF k.stale THEN committed ELSE k.upto
  BY <1>1 DEF Commits, broker, stores
<1>7. CASE k.stale
  <2>1. UNCHANGED <<broker, committed, stores>> /\ r.upto <= Len(topic)
        /\ r.pc \notin {"inserting", "sending"} /\ r.recent = job[j].recent
        /\ \A i \in Jobs : owner = i => owner' = i
    BY <1>1, <1>2, <1>4, <1>6, <1>7
  <2>2. QED BY <1>4, <1>5, <2>1, DropKeeps
<1>8. CASE ~k.stale
  <2>1. committed' = k.upto /\ committed' \in 0..Len(topic)
    BY <1>2, <1>6, <1>8
  <2>2. Typed'
    <3>1. r.upto <= Len(topic) /\ r.fresh \cup r.envelopes \subseteq 1..r.upto
          /\ copies' \in [Spans -> Nat] /\ parked' \subseteq DOMAIN topic
      BY <1>2, <1>4, <1>6, TypedParts DEF EnricherInv
    <3>2. QED BY <1>4, <1>5, <1>6, <2>1, <3>1, TypedMove DEF EnricherInv
  <2>3. Grows
    BY <1>6, TopicStays DEF EnricherInv
  <2>4. /\ owner = j /\ committed <= k.upto
        /\ \A o \in committed + 1 .. k.upto :
             \/ Settled(o)
             \/ SpanAt(o).sink # Rejected /\ \E p \in k.fresh : SpanAt(p) = SpanAt(o)
    BY <1>1, <1>2, <1>8 DEF EnricherInv, Covers, Busy
  <2>5. ASSUME NEW p \in k.fresh PROVE SpanAt(p).sink # Rejected /\ copies[SpanAt(p)] >= 1
    <3>1. k.acked = Len(Sinks)
      BY <1>1, <1>2 DEF EnricherInv, Remembered
    <3>2. QED BY <1>1, <3>1, StoredOnceAcked
  <2>6. ASSUME NEW o \in 1..k.upto PROVE Settled(o)'
    <3>1. Settled(o)
      <4>1. CASE o <= committed
        BY <4>1, TypedParts DEF EnricherInv, NothingLost, Settled
      <4>2. CASE ~(o <= committed)
        <5>1. o \in committed + 1 .. k.upto
          BY <1>2, <4>2, TypedParts DEF EnricherInv
        <5>2. QED BY <2>4, <2>5, <5>1 DEF Settled
      <4>3. QED BY <4>1, <4>2
    <3>2. QED BY <1>6, <3>1 DEF Settled, SpanAt
  <2>7. NothingLost'
    BY <2>1, <2>6 DEF NothingLost, Settled
  <2>8. Covers(j)' /\ Remembered(j)'
    BY <1>1, <1>4, <1>5, <2>2, <2>3, EmptyHanded DEF Busy
  <2>9. ASSUME NEW i \in Jobs, i # j PROVE Covers(i)' /\ Remembered(i)'
    <3>1. job'[i] = job[i] /\ owner # i
      BY <1>5, <2>4, <2>9, TypedParts DEF EnricherInv
    <3>2. Covers(i)'
      <4>1. ~(Busy(i) /\ ~job[i].stale)
        BY <3>1 DEF EnricherInv, Covers
      <4>2. QED BY <3>1, <4>1 DEF Covers, Busy
    <3>3. QED BY <2>2, <2>3, <3>1, <3>2, RememberedStays
  <2>10. QED BY <2>2, <2>7, <2>8, <2>9 DEF EnricherInv
<1>9. QED BY <1>7, <1>8

-----------------------------------------------------------------------------
(* The theorems.                                                             *)

LEMMA EnricherNext ==
  ASSUME EnricherInv, [Next]_vars
  PROVE  EnricherInv'
<1>1. CASE Tick
  BY <1>1, TickKeeps
<1>2. ASSUME NEW s \in Spans, Produce(s) PROVE EnricherInv'
  BY <1>2, ProduceKeeps
<1>3. ASSUME NEW j \in Jobs, Starts(j) \/ Assign(j) \/ RequestStop(j) PROVE EnricherInv'
  BY <1>3, StartsKeeps, AssignKeeps, RequestStopKeeps
<1>4. ASSUME NEW j \in Jobs, GivesUp(j) \/ Crashes(j) PROVE EnricherInv'
  <2>1. Leaves(j)
    BY <1>4 DEF GivesUp, Crashes
  <2>2. QED BY <2>1, LeavesKeeps
<1>5. ASSUME NEW j \in Jobs, InsertAcks(j) \/ InsertResent(j) PROVE EnricherInv'
  <2>1. \E n \in Nat \ {0} : Land(Batch(j), n)
    BY <1>5 DEF InsertAcks, InsertResent
  <2>2. /\ Inserting(j) /\ job' = [job EXCEPT ![j].acked = @ + 1]
        /\ UNCHANGED <<broker, committed, owner, parked>>
    BY <1>5 DEF InsertAcks, InsertResent
  <2>3. QED BY <2>1, <2>2, AckKeeps
<1>6. ASSUME NEW j \in Jobs, Poll(j) \/ Remembers(j) \/ InsertFails(j) PROVE EnricherInv'
  BY <1>6, PollKeeps, RemembersKeeps, InsertFailsKeeps
<1>7. ASSUME NEW j \in Jobs, Sends(j) \/ Commits(j) PROVE EnricherInv'
  BY <1>7, SendsKeeps, CommitsKeeps
<1>8. CASE UNCHANGED vars
  <2>1. UNCHANGED <<topic, now, committed, owner, job, copies, parked>>
    BY <1>8 DEF vars
  <2>2. Typed'
    BY <2>1 DEF EnricherInv, Typed
  <2>3. Grows
    BY <2>1, TopicStays DEF EnricherInv
  <2>4. QED BY <2>1, <2>2, <2>3, NoProcess
<1>9. QED BY <1>1, <1>2, <1>3, <1>4, <1>5, <1>6, <1>7, <1>8 DEF Next, Works

LEMMA EnricherInit ==
  ASSUME Init
  PROVE  EnricherInv
<1>1. /\ Down \in JobRec /\ Down.pc = "down" /\ Down.fresh = {} /\ Down.envelopes = {}
      /\ Down.upto = 0 /\ Down.recent = EmptyCache
  BY DownTyped DEF Down
<1>2. Len(<<>>) = 0 /\ DOMAIN <<>> = {} /\ 1..0 = {}
  OBVIOUS
<1>3. topic = <<>> /\ committed = 0 /\ parked = {} /\ now = 0
      /\ \A j \in Jobs : job[j] = Down
  BY DEF Init
<1>4. Typed
  BY <1>1, <1>2, <1>3 DEF Init, Typed
<1>5. NothingLost
  BY <1>2, <1>3 DEF NothingLost
<1>6. \A s \in Spans : ~Knows(EmptyCache, Key(s))
  BY DEF Knows, EmptyCache
<1>7. ASSUME NEW j \in Jobs PROVE Covers(j) /\ Remembered(j)
  BY <1>1, <1>3, <1>6 DEF Covers, Remembered, Busy
<1>8. QED BY <1>4, <1>5, <1>7 DEF EnricherInv

LEMMA EnricherHolds == Spec => []EnricherInv
BY EnricherInit, EnricherNext, PTL DEF Spec

\* No accident loses a span (consumer.py, _process_poll: the offset is committed
\* last): whatever is behind the group's offset is in its table or has its envelope
\* on the dead-letter topic, however processes crash, stop and take the partition
\* from each other, inserts fail in part, and the dedup cache forgets.
THEOREM NoSpanIsLost == Spec => []NothingLost
<1>1. EnricherInv => NothingLost
  BY DEF EnricherInv
<1>2. QED BY <1>1, EnricherHolds, PTL

Sent == {SpanAt(o) : o \in DOMAIN topic}
Stored == {s \in Spans : copies[s] >= 1}
Parked == {SpanAt(o) : o \in parked}
Done == {SpanAt(o) : o \in 1..committed}

\* What a batch adds to the promise's picture.
LEMMA LandSettles ==
  ASSUME EnricherInv, NEW j \in Jobs, NEW batch \in SUBSET Batch(j), NEW n \in Nat \ {0},
         Land(batch, n)
  PROVE  Stored' = Stored \cup batch /\ batch \subseteq Sent /\ batch \subseteq Spans
<1>1. ASSUME NEW s \in Batch(j) PROVE s \in Sent /\ s \in Spans
  <2>1. PICK o \in job[j].fresh : s = SpanAt(o)
    BY DEF Batch
  <2>2. QED BY <2>1, JobTyped, SpansTyped DEF EnricherInv, Sent
<1>2. ASSUME NEW s \in Spans PROVE copies'[s] >= 1 <=> copies[s] >= 1 \/ s \in batch
  <2>1. copies[s] \in Nat
    BY TypedParts DEF EnricherInv
  <2>2. QED BY <2>1 DEF Land
<1>3. QED BY <1>1, <1>2 DEF Stored

LEMMA PictureStays ==
  ASSUME EnricherInv
  PROVE  /\ UNCHANGED topic => UNCHANGED Sent
         /\ UNCHANGED copies => UNCHANGED Stored
         /\ UNCHANGED <<topic, parked>> => UNCHANGED Parked
         /\ UNCHANGED <<topic, committed>> => UNCHANGED Done
BY DEF Sent, Stored, Parked, Done, SpanAt

LEMMA StepsPromise ==
  ASSUME EnricherInv, EnricherInv', [Next]_vars
  PROVE  [Promise!Next]_(Promise!vars)
<1>1. /\ Promise!vars = <<Sent, Stored \cup Parked, Done>>
      /\ (Promise!vars)' = <<Sent', Stored' \cup Parked', Done'>>
  BY DEF Promise!vars, Sent, Stored, Parked, Done
<1>2. ASSUME UNCHANGED <<topic, copies, parked, committed>>
      PROVE  UNCHANGED Promise!vars
  BY <1>1, <1>2, PictureStays
<1>3. ASSUME NEW batch \in SUBSET Spans, batch \subseteq Sent, Stored' = Stored \cup batch,
             UNCHANGED <<topic, parked, committed>>
      PROVE  Promise!Next
  <2>1. UNCHANGED Sent /\ UNCHANGED Parked /\ UNCHANGED Done
    BY <1>3, PictureStays
  <2>2. Promise!Settle(batch)
    BY <1>3, <2>1 DEF Promise!Settle, Sent, Stored, Parked, Done
  <2>3. QED BY <1>3, <2>2 DEF Promise!Next
<1>4. ASSUME NEW s \in Spans, Produce(s) PROVE Promise!Next
  <2>1. PICK r : topic' = Append(topic, r) /\ r.span = s
    BY <1>4 DEF Produce
  <2>2. UNCHANGED <<copies, parked, committed>>
    BY <1>4 DEF Produce, stores
  <2>3. /\ DOMAIN topic' = DOMAIN topic \cup {Len(topic) + 1}
        /\ \A o \in DOMAIN topic : topic'[o] = topic[o]
        /\ topic'[Len(topic) + 1] = r
    BY <2>1, TypedParts DEF EnricherInv
  <2>4. \A o \in DOMAIN topic : SpanAt(o)' = SpanAt(o)
    BY <2>3 DEF SpanAt
  <2>5. Sent' = Sent \cup {s}
    <3>1. PICK n : n = Len(topic) + 1
      OBVIOUS
    <3>2. topic'[n].span = s /\ DOMAIN topic' = DOMAIN topic \cup {n}
      BY <2>1, <2>3, <3>1
    <3>3. Sent' = {topic'[o].span : o \in DOMAIN topic \cup {n}}
      BY <3>2 DEF Sent, SpanAt
    <3>4. Sent = {topic[o].span : o \in DOMAIN topic}
      BY DEF Sent, SpanAt
    <3>5. \A o \in DOMAIN topic : topic'[o].span = topic[o].span
      BY <2>3
    <3>6. QED BY <3>2, <3>3, <3>4, <3>5
  <2>6. UNCHANGED Stored /\ UNCHANGED Parked
    BY <2>2, <2>4, TypedParts DEF EnricherInv, Stored, Parked
  <2>7. UNCHANGED Done
    <3>1. \A o \in 1..committed : o \in DOMAIN topic
      BY TypedParts DEF EnricherInv
    <3>2. QED BY <2>2, <2>4, <3>1 DEF Done
  <2>8. Promise!Send(s)
    BY <2>5, <2>6, <2>7 DEF Promise!Send, Sent, Stored, Parked, Done
  <2>9. QED BY <2>8 DEF Promise!Next
<1>5. ASSUME NEW j \in Jobs, InsertAcks(j) \/ InsertResent(j) \/ InsertFails(j) PROVE Promise!Next
  <2>1. UNCHANGED <<topic, parked, committed>>
    BY <1>5 DEF InsertAcks, InsertResent, InsertFails, broker
  <2>2. \E batch \in SUBSET Batch(j) : \E n \in Nat \ {0} : Land(batch, n)
    BY <1>5 DEF InsertAcks, InsertResent, InsertFails
  <2>3. PICK batch \in SUBSET Batch(j) : \E n \in Nat \ {0} : Land(batch, n)
    BY <2>2
  <2>4. Stored' = Stored \cup batch /\ batch \subseteq Sent /\ batch \subseteq Spans
    BY <2>3, LandSettles
  <2>5. QED BY <1>3, <2>1, <2>4
<1>6. ASSUME NEW j \in Jobs, Sends(j) PROVE Promise!Next
  <2>1. PICK o \in job[j].envelopes : parked' = parked \cup {o}
    BY <1>6 DEF Sends
  <2>2. UNCHANGED <<topic, copies, committed>>
    BY <1>6 DEF Sends, broker
  <2>3. SpanAt(o) \in Sent /\ SpanAt(o) \in Spans
    BY JobTyped, SpansTyped DEF EnricherInv, Sent
  <2>4. Parked' = Parked \cup {SpanAt(o)}
    BY <2>1, <2>2 DEF Parked, SpanAt
  <2>5. UNCHANGED Sent /\ UNCHANGED Stored /\ UNCHANGED Done
    BY <2>2, PictureStays
  <2>6. PICK batch : batch = {SpanAt(o)}
    OBVIOUS
  <2>7. UNCHANGED Sent /\ UNCHANGED Done /\ batch \subseteq Sent /\ batch \in SUBSET Spans
        /\ Stored' \cup Parked' = (Stored \cup Parked) \cup batch
    BY <2>3, <2>4, <2>5, <2>6
  <2>8. Promise!Settle(batch)
    BY <2>7 DEF Promise!Settle, Sent, Stored, Parked, Done
  <2>9. QED BY <2>7, <2>8 DEF Promise!Next
<1>7. ASSUME NEW j \in Jobs, Commits(j) PROVE [Promise!Next]_(Promise!vars)
  <2>1. UNCHANGED <<topic, copies, parked>>
    BY <1>7 DEF Commits, broker, stores
  <2>2. CASE job[j].stale
    BY <1>2, <1>7, <2>1, <2>2 DEF Commits
  <2>3. CASE ~job[j].stale
    <3>1. committed <= committed'
      BY <1>7, <2>3 DEF Commits, EnricherInv, Covers, Busy
    <3>2. /\ committed \in Nat /\ committed' \in Nat
          /\ \A o \in 1..committed' : o \in DOMAIN topic
      BY <2>1, TypedParts DEF EnricherInv, Typed
    <3>3. ASSUME NEW o \in 1..committed' PROVE SpanAt(o) \in Spans /\ SpanAt(o) \in Stored \cup Parked
      <4>1. SpanAt(o) \in Spans
        BY <3>2, SpansTyped DEF EnricherInv
      <4>2. Settled(o)'
        BY DEF EnricherInv, NothingLost, Settled
      <4>3. Settled(o)
        BY <2>1, <4>2 DEF Settled, SpanAt
      <4>4. QED BY <4>1, <4>3 DEF Settled, Stored, Parked
    <3>4. \A o \in 1..committed : o \in 1..committed'
      BY <3>1, <3>2
    <3>5. Done' = {SpanAt(o) : o \in 1..committed'}
      BY <2>1 DEF Done, SpanAt
    <3>6. Done' \in SUBSET Spans /\ Done' \subseteq Stored \cup Parked /\ Done' = Done \cup Done'
      BY <3>3, <3>4, <3>5 DEF Done
    <3>7. UNCHANGED Sent /\ UNCHANGED Stored /\ UNCHANGED Parked
      BY <2>1, PictureStays
    <3>8. PICK batch : batch = Done'
      OBVIOUS
    <3>9. Promise!Acknowledge(batch)
      BY <3>6, <3>7, <3>8 DEF Promise!Acknowledge, Sent, Stored, Parked, Done
    <3>10. QED BY <3>6, <3>8, <3>9 DEF Promise!Next
  <2>4. QED BY <2>2, <2>3
<1>8. ASSUME NEW j \in Jobs,
             \/ Starts(j) \/ Assign(j) \/ RequestStop(j) \/ GivesUp(j) \/ Crashes(j)
             \/ Poll(j) \/ Remembers(j)
      PROVE  UNCHANGED Promise!vars
  <2>1. UNCHANGED <<topic, copies, parked, committed>>
    BY <1>8 DEF Starts, Assign, RequestStop, GivesUp, Crashes, Leaves, Poll, Remembers, broker, stores
  <2>2. QED BY <1>2, <2>1
<1>9. ASSUME Tick \/ UNCHANGED vars PROVE UNCHANGED Promise!vars
  <2>1. UNCHANGED <<topic, copies, parked, committed>>
    BY <1>9 DEF Tick, vars, stores
  <2>2. QED BY <1>2, <2>1
<1>10. QED BY <1>4, <1>5, <1>6, <1>7, <1>8, <1>9 DEF Next, Works

\* The pipeline keeps its promise to the producers (Delivery): a span is acknowledged
\* only once it is stored or parked, and a settled one stays settled.
THEOREM DeliversAtLeastOnce == Spec => AtLeastOnce
<1>1. Init => Promise!Init
  <2>1. SUFFICES ASSUME Init PROVE Promise!Init
    OBVIOUS
  <2>2. topic = <<>> /\ committed = 0 /\ parked = {} /\ \A s \in Spans : copies[s] = 0
    BY <2>1 DEF Init
  <2>3. DOMAIN <<>> = {} /\ 1..0 = {} /\ ~(0 >= 1)
    OBVIOUS
  <2>4. QED BY <2>2, <2>3 DEF Promise!Init
<1>2. EnricherInv /\ EnricherInv' /\ [Next]_vars => [Promise!Next]_(Promise!vars)
  BY StepsPromise
<1>3. QED BY <1>1, <1>2, EnricherHolds, PTL DEF Spec, AtLeastOnce, Promise!Spec

-----------------------------------------------------------------------------
(* How often a span is counted: the inductive invariant.                     *)

\* The dedup window is long enough: it holds every span there is, and outlasts the
\* copies of one span, the group's lag and the clocks together.
Spread(n) == (n - 1) * RetryHorizon
Room == Spread(MaxCopies)

WindowSuffices ==
  /\ IsFiniteSet(Jobs) /\ IsFiniteSet(Spans)
  /\ Cardinality(Spans) <= MaxEntries
  /\ Window >= Room + MaxLag + MaxSkew

RecordsOf(s) == {o \in DOMAIN topic : SpanAt(o) = s}

\* No record of s can be ahead of the group any more.
Over(s) == \E o \in RecordsOf(s) : now > RealTime(o) + Room + MaxLag

\* Another record of s is no news to a process.
Has(r, s) == (\E p \in r.fresh : SpanAt(p) = s) \/ Knows(r.recent, Key(s))

\* It does not have s, or will not commit it.
MayRepeat(r, s) == r.stopping \/ r.stale \/ (~Has(r, s) /\ ~Over(s))

\* One more copy of s may still be on its way.
Exposed(s) == owner = Nobody \/ MayRepeat(job[owner], s)

\* The polls that have yet to store s.
ToStore(r, s) ==
  /\ r.pc = "inserting" /\ \E p \in r.fresh : SpanAt(p) = s
  /\ \A k \in 1..r.acked : Sinks[k] # s.sink

Pending(s) == {j \in Jobs : ToStore(job[j], s)}

Claim(s) == IF Exposed(s) THEN 1 ELSE 0

Balanced(s) == copies[s] + Cardinality(Pending(s)) + Claim(s) <= 1 + accidents[s]

\* A record that is not committed is recent, and the records of one span are close.
Timed ==
  /\ \A o \in DOMAIN topic : RealTime(o) \in Nat /\ RealTime(o) <= now
  /\ \A o \in committed + 1 .. Len(topic) : now <= RealTime(o) + MaxLag
  /\ \A s \in Spans : /\ Cardinality(RecordsOf(s)) <= MaxCopies
                      /\ \A o, p \in RecordsOf(s) :
                           RealTime(p) <= RealTime(o) + Spread(Cardinality(RecordsOf(s)))

\* What a cache holds: one entry of a span, no older than some record of it.
TidyCache(recent) ==
  /\ recent.newest <= now + MaxSkew
  /\ \A i \in DOMAIN recent.seen :
       \E o \in DOMAIN topic : Key(SpanAt(o)) = recent.seen[i].key /\ RealTime(o) <= recent.seen[i].at
  /\ \A i, k \in DOMAIN recent.seen : recent.seen[i].key = recent.seen[k].key => i = k

\* What a poll has in hand: one record of each span, unknown before its inserts and
\* remembered after them, for as long as that matters.
TidyPoll(r) ==
  /\ r.pc \notin {"inserting", "sending"} => r.fresh = {} /\ r.stale = FALSE
  /\ \A p, q \in r.fresh : SpanAt(p) = SpanAt(q) => p = q
  /\ r.pc = "inserting" => \A p \in r.fresh : ~Knows(r.recent, Key(SpanAt(p)))
  /\ r.pc = "sending" => \A p \in r.fresh : Knows(r.recent, Key(SpanAt(p))) \/ Over(SpanAt(p))

Tidy(j) == TidyCache(job[j].recent) /\ TidyPoll(job[j]) /\ (owner = j => job[j].pc # "down")

CountInv ==
  /\ EnricherInv
  /\ owner \in Jobs \cup {Nobody} /\ accidents \in [Spans -> Nat]
  /\ Timed /\ (\A j \in Jobs : Tidy(j)) /\ \A s \in Spans : Balanced(s)

LEMMA SpreadGrows ==
  ASSUME NEW m \in Nat, NEW n \in Nat, m <= n
  PROVE  /\ Spread(m) \in Int /\ Spread(n) \in Int /\ Spread(m) <= Spread(n)
         /\ Spread(n + 1) = Spread(n) + RetryHorizon
<1>1. RetryHorizon \in Nat
  BY EnricherAssumption
<1>2. \A a \in Int : a * RetryHorizon \in Int
  BY <1>1
<1>3. m - 1 \in Int /\ n - 1 \in Int /\ n - m \in Nat
  OBVIOUS
<1>4. (n - m) * RetryHorizon \in Nat
  BY <1>1, <1>3
<1>5. (n - 1) * RetryHorizon = (m - 1) * RetryHorizon + (n - m) * RetryHorizon
  BY <1>1
<1>6. ((n + 1) - 1) * RetryHorizon = (n - 1) * RetryHorizon + RetryHorizon
  BY <1>1
<1>7. QED BY <1>2, <1>3, <1>4, <1>5, <1>6 DEF Spread

LEMMA NumbersTyped ==
  /\ Room \in Int /\ RetryHorizon \in Nat /\ MaxLag \in Nat /\ MaxSkew \in Nat
  /\ Window \in Nat /\ MaxCopies \in Nat /\ MaxEntries \in Nat /\ Ahead \in Nat
<1>1. MaxCopies \in Nat /\ RetryHorizon \in Nat /\ MaxLag \in Nat /\ Ahead \in Nat
  BY EnricherAssumption
<1>2. Room \in Int
  BY <1>1, SpreadGrows DEF Room
<1>3. QED BY <1>1, <1>2, DedupAssumption

LEMMA RecordsFinite ==
  ASSUME Typed, NEW s \in Spans
  PROVE  IsFiniteSet(RecordsOf(s)) /\ Cardinality(RecordsOf(s)) \in Nat
<1>1. IsFiniteSet(1..Len(topic)) /\ RecordsOf(s) \subseteq 1..Len(topic)
  BY TypedParts, FS_Interval DEF RecordsOf
<1>2. QED BY <1>1, FS_Subset, FS_CardinalityType

LEMMA PendingFinite ==
  ASSUME IsFiniteSet(Jobs), NEW s \in Spans
  PROVE  IsFiniteSet(Pending(s)) /\ Cardinality(Pending(s)) \in Nat
<1>1. Pending(s) \subseteq Jobs
  BY DEF Pending
<1>2. QED BY <1>1, FS_Subset, FS_CardinalityType

LEMMA TimedParts ==
  ASSUME Typed, Timed, NEW o \in DOMAIN topic
  PROVE  /\ RealTime(o) \in Nat /\ RealTime(o) <= now /\ RealTime(o) <= topic[o].at
         /\ \A s \in Spans : o \in RecordsOf(s) <=> SpanAt(o) = s
<1>1. RealTime(o) \in Nat /\ RealTime(o) <= now
  BY DEF Timed
<1>2. topic[o].at \in Nat /\ Ahead \in Nat
  BY SpansTyped, NumbersTyped
<1>3. RealTime(o) <= topic[o].at
  BY <1>2 DEF RealTime
<1>4. QED BY <1>1, <1>3 DEF RecordsOf

\* While a record is ahead of the group, its span matters.
LEMMA NotOverYet ==
  ASSUME Typed, Timed, NEW p \in committed + 1 .. Len(topic)
  PROVE  ~Over(SpanAt(p))
<1>1. committed \in Nat /\ Len(topic) \in Nat /\ p \in 1..Len(topic) /\ p \in DOMAIN topic
  BY TypedParts
<1>2. PICK s : s = SpanAt(p) /\ s \in Spans
  BY <1>1, SpansTyped
<1>3. p \in RecordsOf(s)
  BY <1>1, <1>2 DEF RecordsOf
<1>4. now <= RealTime(p) + MaxLag /\ RealTime(p) \in Nat /\ now \in Nat
  BY <1>1, TypedParts DEF Timed
<1>5. PICK c : c = Cardinality(RecordsOf(s)) /\ c \in Nat /\ c <= MaxCopies
  BY <1>2, RecordsFinite DEF Timed
<1>6. Spread(c) \in Int /\ Spread(c) <= Room
  BY <1>5, NumbersTyped, SpreadGrows DEF Room
<1>7. ASSUME NEW o \in RecordsOf(s) PROVE ~(now > RealTime(o) + Room + MaxLag)
  <2>1. RealTime(p) <= RealTime(o) + Spread(c)
    BY <1>2, <1>3, <1>5 DEF Timed
  <2>2. RealTime(o) \in Nat
    BY DEF Timed, RecordsOf
  <2>3. QED BY <1>4, <1>6, <2>1, <2>2, NumbersTyped
<1>8. QED BY <1>2, <1>7 DEF Over

\* Records stay, and time does not go back.
TimeGoesOn ==
  /\ \A o \in DOMAIN topic : o \in DOMAIN topic' /\ topic'[o] = topic[o]
  /\ now <= now'

LEMMA TimeShifts ==
  ASSUME Typed, Typed', Timed, Timed', TimeGoesOn
  PROVE  /\ \A o \in DOMAIN topic : SpanAt(o)' = SpanAt(o) /\ RealTime(o)' = RealTime(o)
         /\ \A s \in Spans : Over(s) => Over(s)'
<1>1. ASSUME NEW o \in DOMAIN topic
      PROVE  o \in DOMAIN topic' /\ SpanAt(o)' = SpanAt(o) /\ RealTime(o)' = RealTime(o)
  BY DEF TimeGoesOn, SpanAt, RealTime
<1>2. ASSUME NEW s \in Spans, Over(s) PROVE Over(s)'
  <2>1. PICK o \in RecordsOf(s) : now > RealTime(o) + Room + MaxLag
    BY <1>2 DEF Over
  <2>2. o \in DOMAIN topic /\ RealTime(o) \in Nat
    BY DEF RecordsOf, Timed
  <2>3. o \in RecordsOf(s)'
    BY <1>1, <2>1, <2>2 DEF RecordsOf
  <2>4. now' > RealTime(o)' + Room + MaxLag
    BY <1>1, <2>1, <2>2, TypedParts, NumbersTyped DEF TimeGoesOn, Typed
  <2>5. QED BY <2>3, <2>4 DEF Over
<1>3. QED BY <1>1, <1>2

LEMMA TimeStays ==
  ASSUME UNCHANGED broker
  PROVE  /\ \A o : SpanAt(o)' = SpanAt(o) /\ RealTime(o)' = RealTime(o)
         /\ \A s : RecordsOf(s)' = RecordsOf(s) /\ Over(s)' = Over(s)
         /\ topic' = topic /\ now' = now
<1>1. topic' = topic /\ now' = now
  BY DEF broker
<1>2. \A o : SpanAt(o)' = SpanAt(o) /\ RealTime(o)' = RealTime(o)
  BY <1>1 DEF SpanAt, RealTime
<1>3. \A s : RecordsOf(s)' = RecordsOf(s)
  BY <1>1, <1>2 DEF RecordsOf
<1>4. \A s : Over(s)' = Over(s)
  BY <1>1, <1>2, <1>3 DEF Over
<1>5. QED BY <1>1, <1>2, <1>3, <1>4

LEMMA Later ==
  ASSUME NEW a \in Nat, NEW b \in Nat, a <= b, NEW n \in Nat
  PROVE  \A o \in b + 1 .. n : o \in a + 1 .. n
OBVIOUS

LEMMA TimedStays ==
  ASSUME Typed, Timed, UNCHANGED broker, committed' \in Nat, committed <= committed'
  PROVE  Timed' /\ (Typed' => TimeGoesOn)
<1>1. \A o \in committed' + 1 .. Len(topic) : o \in committed + 1 .. Len(topic)
  <2>1. committed \in Nat /\ Len(topic) \in Nat
    BY TypedParts
  <2>2. QED BY <2>1, Later
<1>2. Timed'
  BY <1>1, TimeStays DEF Timed
<1>3. TimeGoesOn
  BY TimeStays, TypedParts DEF TimeGoesOn
<1>4. QED BY <1>2, <1>3

LEMMA TimedTick ==
  ASSUME Typed, Timed, Tick
  PROVE  Timed' /\ TimeGoesOn
<1>1. UNCHANGED <<topic, committed>> /\ now' = now + 1 /\ now \in Nat
      /\ \A o \in committed + 1 .. Len(topic) : RealTime(o) + MaxLag > now
  BY TypedParts DEF Tick
<1>2. \A o : SpanAt(o)' = SpanAt(o) /\ RealTime(o)' = RealTime(o)
  BY <1>1 DEF SpanAt, RealTime
<1>3. \A s : RecordsOf(s)' = RecordsOf(s)
  BY <1>1, <1>2 DEF RecordsOf
<1>4. \A o \in DOMAIN topic : RealTime(o) \in Nat /\ RealTime(o) <= now'
  BY <1>1 DEF Timed
<1>5. \A o \in committed + 1 .. Len(topic) : now' <= RealTime(o) + MaxLag
  <2>1. \A o \in committed + 1 .. Len(topic) : o \in DOMAIN topic
    BY TypedParts
  <2>2. QED BY <1>1, <1>4, <2>1, NumbersTyped
<1>6. Timed'
  BY <1>1, <1>2, <1>3, <1>4, <1>5 DEF Timed
<1>7. QED BY <1>1, <1>6 DEF TimeGoesOn

LEMMA TimedProduce ==
  ASSUME Typed, Timed, NEW s \in Spans, Produce(s)
  PROVE  Timed' /\ TimeGoesOn
<1>1. PICK n, r : n = Len(topic) + 1 /\ r = [span |-> s, at |-> IF s \in Skewed THEN now + Ahead ELSE now]
  OBVIOUS
<1>2. /\ topic' = Append(topic, r) /\ now' = now /\ committed' = committed
      /\ Cardinality(RecordsOf(s)) < MaxCopies
      /\ RecordsOf(s) = {} \/ \E o \in RecordsOf(s) : RealTime(o) + RetryHorizon >= now
  BY <1>1 DEF Produce, RecordsOf
<1>3. /\ Len(topic') = n /\ DOMAIN topic' = DOMAIN topic \cup {n} /\ n \notin DOMAIN topic
      /\ \A o \in DOMAIN topic : topic'[o] = topic[o]
      /\ topic'[n] = r /\ n \in Nat /\ Len(topic) \in Nat
  BY <1>1, <1>2, TypedParts
<1>4. now \in Nat /\ committed \in Nat /\ committed <= Len(topic)
  BY TypedParts
<1>5. \A o \in DOMAIN topic : SpanAt(o)' = SpanAt(o) /\ RealTime(o)' = RealTime(o)
  BY <1>3 DEF SpanAt, RealTime
<1>6. SpanAt(n)' = s /\ RealTime(n)' = now
  BY <1>1, <1>3, <1>4, NumbersTyped DEF SpanAt, RealTime
<1>7. \A o \in DOMAIN topic' : RealTime(o)' \in Nat /\ RealTime(o)' <= now
  BY <1>3, <1>4, <1>5, <1>6 DEF Timed
<1>8. ASSUME NEW o \in committed + 1 .. Len(topic') PROVE now <= RealTime(o)' + MaxLag
  <2>1. CASE o = n
    BY <1>4, <1>6, <2>1, NumbersTyped
  <2>2. CASE o # n
    <3>1. o \in committed + 1 .. Len(topic) /\ o \in DOMAIN topic
      BY <1>1, <1>3, <1>4, <2>2, TypedParts
    <3>2. QED BY <1>5, <3>1 DEF Timed
  <2>3. QED BY <2>1, <2>2
<1>9. ASSUME NEW t \in Spans, t # s PROVE RecordsOf(t)' = RecordsOf(t)
  BY <1>3, <1>5, <1>6, <1>9 DEF RecordsOf
<1>10. RecordsOf(s)' = RecordsOf(s) \cup {n} /\ n \notin RecordsOf(s)
  BY <1>3, <1>5, <1>6 DEF RecordsOf
<1>11. PICK c : c = Cardinality(RecordsOf(s)) /\ c \in Nat
  BY RecordsFinite
<1>12. Cardinality(RecordsOf(s)') = c + 1
  BY <1>10, <1>11, RecordsFinite, FS_AddElement
<1>13. Spread(c) \in Int /\ Spread(c + 1) = Spread(c) + RetryHorizon
  BY <1>11, SpreadGrows
<1>14. \A o \in RecordsOf(s) : o \in DOMAIN topic /\ RealTime(o) \in Nat /\ RealTime(o) <= now
                               /\ RealTime(o)' = RealTime(o)
  BY <1>5 DEF Timed, RecordsOf
<1>15. \A o, p \in RecordsOf(s) : RealTime(p) <= RealTime(o) + Spread(c)
  BY <1>11 DEF Timed
<1>16. c + 1 >= 1 /\ Spread(1) = 0 /\ Spread(c + 1) \in Int /\ Spread(1) <= Spread(c + 1)
  <2>1. Spread(1) = 0
    BY NumbersTyped DEF Spread
  <2>2. QED BY <1>11, <2>1, SpreadGrows
<1>17. ASSUME NEW o \in RecordsOf(s)', NEW p \in RecordsOf(s)'
       PROVE  RealTime(p)' <= RealTime(o)' + Spread(c + 1)
  <2>1. CASE o = n
    <3>1. RealTime(p)' \in Nat /\ RealTime(p)' <= now /\ RealTime(o)' = now
      BY <1>6, <1>7, <2>1 DEF RecordsOf
    <3>2. QED BY <1>4, <1>16, <3>1
  <2>2. CASE o # n /\ p # n
    <3>1. o \in RecordsOf(s) /\ p \in RecordsOf(s)
      BY <1>10, <2>2
    <3>2. QED BY <1>13, <1>14, <1>15, <3>1, NumbersTyped
  <2>3. CASE o # n /\ p = n
    <3>1. o \in RecordsOf(s)
      BY <1>10, <2>3
    <3>2. PICK q \in RecordsOf(s) : RealTime(q) + RetryHorizon >= now
      BY <1>2, <3>1
    <3>3. RealTime(q) <= RealTime(o) + Spread(c)
      BY <1>15, <3>1
    <3>4. RealTime(q) \in Nat /\ RealTime(o) \in Nat /\ RealTime(o)' = RealTime(o) /\ RealTime(p)' = now
      BY <1>6, <1>14, <2>3, <3>1
    <3>5. QED BY <1>4, <1>13, <3>2, <3>3, <3>4, NumbersTyped
  <2>4. QED BY <2>1, <2>2, <2>3
<1>18. ASSUME NEW t \in Spans
       PROVE  /\ Cardinality(RecordsOf(t)') <= MaxCopies
              /\ \A o, p \in RecordsOf(t)' : RealTime(p)' <= RealTime(o)' + Spread(Cardinality(RecordsOf(t)'))
  <2>1. CASE t = s
    BY <1>2, <1>11, <1>12, <1>17, <2>1, NumbersTyped
  <2>2. CASE t # s
    <3>1. RecordsOf(t)' = RecordsOf(t) /\ \A o \in RecordsOf(t) : o \in DOMAIN topic
      BY <1>9, <2>2 DEF RecordsOf
    <3>2. QED BY <1>5, <3>1 DEF Timed
  <2>3. QED BY <2>1, <2>2
<1>19. Timed'
  BY <1>2, <1>7, <1>8, <1>18 DEF Timed
<1>20. QED BY <1>2, <1>3, <1>4, <1>19 DEF TimeGoesOn

\* Entries with distinct keys are no more than the spans.
LEMMA NoMoreThanSpans ==
  ASSUME NEW all \in Seq(Entry), IsFiniteSet(Spans),
         \A i, k \in DOMAIN all : all[i].key = all[k].key => i = k
  PROVE  Len(all) <= Cardinality(Spans)
<1>1. Len(all) \in Nat /\ DOMAIN all = 1..Len(all) /\ \A i \in 1..Len(all) : all[i] \in Entry
  BY Elements
<1>2. \A i \in 1..Len(all) : \E s \in Spans : Key(s) = all[i].key
  BY <1>1 DEF Entry
<1>3. PICK f : f = [i \in 1..Len(all) |-> CHOOSE s \in Spans : Key(s) = all[i].key]
  OBVIOUS
<1>4. f \in [1..Len(all) -> Spans] /\ \A i \in 1..Len(all) : Key(f[i]) = all[i].key
  BY <1>2, <1>3
<1>5. \A i, k \in 1..Len(all) : f[i] = f[k] => i = k
  <2>1. ASSUME NEW i \in 1..Len(all), NEW k \in 1..Len(all), f[i] = f[k] PROVE i = k
    <3>1. all[i].key = all[k].key
      BY <1>4, <2>1
    <3>2. QED BY <1>1, <3>1
  <2>2. QED BY <2>1
<1>6. f \in Injection(1..Len(all), Spans)
  BY <1>4, <1>5 DEF Injection, IsInjective
<1>7. Cardinality(1..Len(all)) = Len(all)
  BY <1>1, FS_Interval
<1>8. QED BY <1>6, <1>7, FS_Injection

\* A poll that remembers keeps the cache tidy, and forgets no span that matters.
LEMMA RememberTidy ==
  ASSUME Typed, Timed, WindowSuffices, NEW j \in Jobs, Tidy(j), job[j].pc = "inserting",
         NEW recent, recent = Remember(job[j].recent, Entries(job[j].fresh), now)
  PROVE  /\ TidyCache(recent)
         /\ \A s \in Spans : Has(job[j], s) => Knows(recent, Key(s)) \/ Over(s)
<1>1. PICK cache, fresh, stored : cache = job[j].recent /\ fresh = job[j].fresh /\ stored = Entries(fresh)
  OBVIOUS
<1>2. cache \in Cache /\ fresh \in SUBSET (DOMAIN topic) /\ now \in Nat /\ stored \in Seq(Entry)
  <2>1. cache \in Cache /\ fresh \in SUBSET (DOMAIN topic) /\ now \in Nat
    BY <1>1, JobTyped, TypedParts DEF JobRec
  <2>2. QED BY <1>1, <2>1, EntriesTyped
<1>3. /\ cache.newest <= now + MaxSkew
      /\ \A i \in DOMAIN cache.seen :
           \E o \in DOMAIN topic : Key(SpanAt(o)) = cache.seen[i].key /\ RealTime(o) <= cache.seen[i].at
      /\ \A i, k \in DOMAIN cache.seen : cache.seen[i].key = cache.seen[k].key => i = k
      /\ \A p, q \in fresh : SpanAt(p) = SpanAt(q) => p = q
      /\ \A p \in fresh : ~Knows(cache, Key(SpanAt(p)))
  BY <1>1 DEF Tidy, TidyCache, TidyPoll
<1>4. PICK capped \in Seq(Entry), newest \in Nat, h \in Nat :
        /\ recent = [seen |-> Expire(cache.seen \o capped, h), newest |-> newest]
        /\ Len(capped) = Len(stored) /\ DOMAIN capped = DOMAIN stored
        /\ \A i \in DOMAIN stored : /\ capped[i].key = stored[i].key
                                    /\ capped[i].at = CappedAt(stored[i].at, now)
        /\ newest <= now + MaxSkew
        /\ h = 0 \/ h = newest - Window
  <2>1. recent = Remember(cache, stored, now)
    BY <1>1
  <2>2. cache.newest <= now + MaxSkew
    BY <1>3
  <2>3. \E capped \in Seq(Entry) : \E newest \in Nat : \E h \in Nat :
          /\ Remember(cache, stored, now) = [seen |-> Expire(cache.seen \o capped, h), newest |-> newest]
          /\ Len(capped) = Len(stored) /\ DOMAIN capped = DOMAIN stored
          /\ \A i \in DOMAIN stored : /\ capped[i].key = stored[i].key
                                      /\ capped[i].at = CappedAt(stored[i].at, now)
          /\ cache.newest <= now + MaxSkew => newest <= now + MaxSkew
          /\ h = 0 \/ h = newest - Window
    BY <1>2, RememberParts
  <2>4. QED BY <2>1, <2>2, <2>3
<1>5. PICK q : /\ DOMAIN q = DOMAIN stored
               /\ \A i \in DOMAIN q : /\ q[i] \in fresh
                                      /\ stored[i] = [key |-> Key(SpanAt(q[i])), at |-> topic[q[i]].at]
               /\ \A i, k \in DOMAIN q : q[i] = q[k] => i = k
               /\ \A o \in fresh : \E i \in DOMAIN q : q[i] = o
  <2>1. \E q : /\ DOMAIN q = DOMAIN Entries(fresh)
               /\ \A i \in DOMAIN q : /\ q[i] \in fresh
                                      /\ Entries(fresh)[i] = [key |-> Key(SpanAt(q[i])), at |-> topic[q[i]].at]
               /\ \A i, k \in DOMAIN q : q[i] = q[k] => i = k
               /\ \A o \in fresh : \E i \in DOMAIN q : q[i] = o
    BY <1>2, EntriesAre
  <2>2. QED BY <1>1, <2>1
<1>6. ASSUME NEW i \in DOMAIN capped
      PROVE  /\ q[i] \in fresh /\ q[i] \in DOMAIN topic /\ SpanAt(q[i]) \in Spans
             /\ capped[i].key = Key(SpanAt(q[i])) /\ RealTime(q[i]) <= capped[i].at
  <2>1. /\ q[i] \in fresh /\ q[i] \in DOMAIN topic /\ SpanAt(q[i]) \in Spans
        /\ topic[q[i]].at \in Nat
    BY <1>2, <1>4, <1>5, SpansTyped
  <2>2. /\ capped[i].key = Key(SpanAt(q[i])) /\ capped[i].at = CappedAt(topic[q[i]].at, now)
    BY <1>4, <1>5
  <2>3. RealTime(q[i]) \in Nat /\ RealTime(q[i]) <= now /\ RealTime(q[i]) <= topic[q[i]].at
    BY <2>1, TimedParts
  <2>4. RealTime(q[i]) <= CappedAt(topic[q[i]].at, now)
    BY <1>2, <2>1, <2>3, NumbersTyped DEF CappedAt
  <2>5. QED BY <2>1, <2>2, <2>4
<1>7. PICK all, m : all = cache.seen \o capped /\ m = Len(cache.seen)
  OBVIOUS
<1>8. /\ m \in Nat /\ DOMAIN cache.seen = 1..m /\ DOMAIN capped = 1..Len(capped) /\ Len(capped) \in Nat
      /\ all \in Seq(Entry) /\ Len(all) = m + Len(capped) /\ DOMAIN all = 1..Len(all)
      /\ \A i \in 1..m : all[i] = cache.seen[i]
      /\ \A i \in 1..Len(capped) : all[m + i] = capped[i]
  <2>1. cache.seen \in Seq(Entry)
    BY <1>2 DEF Cache
  <2>2. m \in Nat /\ DOMAIN cache.seen = 1..m /\ DOMAIN capped = 1..Len(capped) /\ Len(capped) \in Nat
    BY <1>4, <1>7, <2>1, Elements
  <2>3. all \in Seq(Entry) /\ Len(all) = m + Len(capped)
        /\ (\A i \in 1..m : all[i] = cache.seen[i]) /\ \A i \in 1..Len(capped) : all[m + i] = capped[i]
    <3>1. PICK old : old = cache.seen /\ old \in Seq(Entry)
      BY <2>1
    <3>2. /\ old \o capped \in Seq(Entry) /\ Len(old \o capped) = Len(old) + Len(capped)
          /\ \A i \in 1..Len(old) : (old \o capped)[i] = old[i]
          /\ \A i \in 1..Len(capped) : (old \o capped)[Len(old) + i] = capped[i]
      BY <3>1, Joined
    <3>3. QED BY <1>7, <3>1, <3>2
  <2>4. DOMAIN all = 1..Len(all)
    BY <2>3, Elements
  <2>5. QED BY <2>2, <2>3, <2>4
<1>9. ASSUME NEW i \in DOMAIN all
      PROVE  i \in 1..m \/ \E k \in 1..Len(capped) : i = m + k
  <2>1. CASE i <= m
    BY <1>8, <2>1
  <2>2. CASE ~(i <= m)
    <3>1. i - m \in 1..Len(capped) /\ i = m + (i - m)
      BY <1>8, <2>2
    <3>2. QED BY <3>1
  <2>3. QED BY <2>1, <2>2
<1>10. ASSUME NEW i \in DOMAIN all
       PROVE  \E o \in DOMAIN topic : Key(SpanAt(o)) = all[i].key /\ RealTime(o) <= all[i].at
  <2>1. CASE i \in 1..m
    BY <1>3, <1>8, <2>1
  <2>2. CASE \E k \in 1..Len(capped) : i = m + k
    <3>1. PICK k \in 1..Len(capped) : i = m + k
      BY <2>2
    <3>2. all[i] = capped[k] /\ k \in DOMAIN capped
      BY <1>8, <3>1
    <3>3. QED BY <1>6, <3>2
  <2>3. QED BY <1>9, <2>1, <2>2
<1>11. ASSUME NEW i \in 1..m, NEW k \in 1..Len(capped) PROVE all[i].key # all[m + k].key
  <2>1. all[i] = cache.seen[i] /\ i \in DOMAIN cache.seen /\ all[m + k] = capped[k] /\ k \in DOMAIN capped
    BY <1>8
  <2>2. all[m + k].key = Key(SpanAt(q[k])) /\ q[k] \in fresh
    BY <1>6, <2>1
  <2>3. QED BY <1>3, <2>1, <2>2 DEF Knows
<1>12. ASSUME NEW i \in 1..Len(capped), NEW k \in 1..Len(capped), capped[i].key = capped[k].key PROVE i = k
  <2>1. i \in DOMAIN capped /\ k \in DOMAIN capped
    BY <1>8
  <2>2. SpanAt(q[i]) = SpanAt(q[k])
    BY <1>6, <1>12, <2>1, KeysDiffer
  <2>3. q[i] = q[k]
    BY <1>3, <1>6, <2>1, <2>2
  <2>4. QED BY <1>4, <1>5, <2>1, <2>3
<1>13. ASSUME NEW i \in DOMAIN all, NEW k \in DOMAIN all, all[i].key = all[k].key PROVE i = k
  <2>1. CASE i \in 1..m /\ k \in 1..m
    BY <1>3, <1>8, <1>13, <2>1
  <2>2. CASE (\E a \in 1..Len(capped) : i = m + a) /\ \E b \in 1..Len(capped) : k = m + b
    <3>1. PICK a \in 1..Len(capped), b \in 1..Len(capped) : i = m + a /\ k = m + b
      BY <2>2
    <3>2. capped[a].key = capped[b].key
      BY <1>8, <1>13, <3>1
    <3>3. QED BY <1>12, <3>1, <3>2
  <2>3. QED BY <1>9, <1>11, <1>13, <2>1, <2>2
<1>14. PICK d \in 0..Len(all) :
         /\ Expire(all, h) \in Seq(Entry) /\ Len(Expire(all, h)) = Len(all) - d
         /\ \A i \in 1 .. Len(all) - d : Expire(all, h)[i] = all[d + i]
         /\ \A i \in 1..d : Goes(all, h, i)
  BY <1>8, ExpireCuts
<1>15. recent.seen = Expire(all, h) /\ recent.newest = newest
  BY <1>4, <1>7
<1>16. DOMAIN recent.seen = 1 .. Len(all) - d
       /\ \A i \in DOMAIN recent.seen : d + i \in DOMAIN all /\ recent.seen[i] = all[d + i]
  <2>1. DOMAIN recent.seen = 1 .. Len(all) - d
    BY <1>14, <1>15, Elements
  <2>2. \A i \in 1 .. Len(all) - d : d + i \in 1..Len(all)
    BY <1>8
  <2>3. QED BY <1>8, <1>14, <1>15, <2>1, <2>2
<1>17. TidyCache(recent)
  <2>1. \A i, k \in DOMAIN recent.seen : recent.seen[i].key = recent.seen[k].key => i = k
    <3>1. ASSUME NEW i \in DOMAIN recent.seen, NEW k \in DOMAIN recent.seen,
                 recent.seen[i].key = recent.seen[k].key
          PROVE  i = k
      <4>1. d + i = d + k
        BY <1>13, <1>16, <3>1
      <4>2. i \in Nat /\ k \in Nat /\ d \in Nat
        BY <1>8, <1>16
      <4>3. QED BY <4>1, <4>2
    <3>2. QED BY <3>1
  <2>2. recent.newest <= now + MaxSkew
    BY <1>4, <1>15
  <2>3. \A i \in DOMAIN recent.seen :
          \E o \in DOMAIN topic : Key(SpanAt(o)) = recent.seen[i].key /\ RealTime(o) <= recent.seen[i].at
    BY <1>10, <1>16
  <2>4. QED BY <2>1, <2>2, <2>3 DEF TidyCache
<1>18. ASSUME NEW s \in Spans, Has(job[j], s) PROVE \E i \in DOMAIN all : all[i].key = Key(s)
  <2>1. CASE Knows(cache, Key(s))
    <3>1. PICK i \in DOMAIN cache.seen : cache.seen[i].key = Key(s)
      BY <2>1 DEF Knows
    <3>2. i \in DOMAIN all /\ all[i] = cache.seen[i]
      BY <1>8, <3>1
    <3>3. QED BY <3>1, <3>2
  <2>2. CASE \E p \in fresh : SpanAt(p) = s
    <3>1. PICK i \in DOMAIN q : q[i] \in fresh /\ SpanAt(q[i]) = s
      BY <1>5, <2>2
    <3>2. i \in 1..Len(capped) /\ capped[i].key = Key(s)
      BY <1>4, <1>5, <1>6, <1>8, <3>1
    <3>3. m + i \in DOMAIN all /\ all[m + i] = capped[i]
      BY <1>8, <3>2
    <3>4. QED BY <3>2, <3>3
  <2>3. QED BY <1>1, <1>18, <2>1, <2>2 DEF Has
<1>19. ASSUME NEW s \in Spans, NEW i \in 1..d, all[i].key = Key(s) PROVE Over(s)
  <2>1. i \in DOMAIN all /\ i \in Nat /\ 1 <= i
    BY <1>8
  <2>2. Len(all) <= Cardinality(Spans) /\ Len(all) \in Nat
    <3>1. \A a, b \in DOMAIN all : all[a].key = all[b].key => a = b
      BY <1>13
    <3>2. IsFiniteSet(Spans) /\ all \in Seq(Entry)
      BY <1>8 DEF WindowSuffices
    <3>3. Len(all) <= Cardinality(Spans)
      BY <3>1, <3>2, NoMoreThanSpans
    <3>4. QED BY <1>8, <3>3
  <2>3. Cardinality(Spans) \in Nat /\ Cardinality(Spans) <= MaxEntries
    BY FS_CardinalityType DEF WindowSuffices
  <2>4. ~(Len(all) - i + 1 > MaxEntries)
    BY <2>1, <2>2, <2>3, NumbersTyped
  <2>5. all[i].at < h
    BY <1>14, <2>4 DEF Goes
  <2>6. PICK o \in DOMAIN topic : Key(SpanAt(o)) = Key(s) /\ RealTime(o) <= all[i].at
    BY <1>10, <1>19, <2>1
  <2>7. SpanAt(o) = s /\ RealTime(o) \in Nat /\ o \in RecordsOf(s)
    BY <2>6, KeysDiffer, SpansTyped, TimedParts
  <2>8. all[i].at \in Nat
    <3>1. all[i] \in Entry
      BY <1>8, <2>1, Elements
    <3>2. QED BY <3>1 DEF Entry
  <2>9. h = newest - Window
    BY <2>5, <2>8, <1>4
  <2>10. now > RealTime(o) + Room + MaxLag
    <3>1. RealTime(o) + Window < now + MaxSkew
      BY <1>2, <1>4, <2>5, <2>6, <2>7, <2>8, <2>9, NumbersTyped
    <3>2. Window >= Room + MaxLag + MaxSkew
      BY DEF WindowSuffices
    <3>3. QED BY <1>2, <2>7, <3>1, <3>2, NumbersTyped
  <2>11. QED BY <2>7, <2>10 DEF Over
<1>20. ASSUME NEW s \in Spans, Has(job[j], s) PROVE Knows(recent, Key(s)) \/ Over(s)
  <2>1. PICK i \in DOMAIN all : all[i].key = Key(s)
    BY <1>18, <1>20
  <2>2. CASE i <= d
    <3>1. i \in 1..d
      BY <1>8, <2>2
    <3>2. QED BY <1>19, <2>1, <3>1
  <2>3. CASE ~(i <= d)
    <3>1. i - d \in 1 .. Len(all) - d /\ d + (i - d) = i
      BY <1>8, <2>3
    <3>2. recent.seen[i - d] = all[i] /\ i - d \in DOMAIN recent.seen
      BY <1>16, <3>1
    <3>3. QED BY <2>1, <3>2 DEF Knows
  <2>4. QED BY <2>2, <2>3
<1>21. QED BY <1>17, <1>20

-----------------------------------------------------------------------------
(* One step of the count.                                                    *)

LEMMA Counts ==
  ASSUME CountInv, WindowSuffices, NEW s \in Spans
  PROVE  /\ copies[s] \in Nat /\ accidents[s] \in Nat /\ Cardinality(Pending(s)) \in Nat
         /\ IsFiniteSet(Pending(s)) /\ Claim(s) \in {0, 1} /\ (Claim(s) = 1 <=> Exposed(s))
         /\ copies[s] + Cardinality(Pending(s)) + Claim(s) <= 1 + accidents[s]
<1>1. copies[s] \in Nat /\ accidents[s] \in Nat
  BY TypedParts DEF CountInv, EnricherInv
<1>2. Cardinality(Pending(s)) \in Nat /\ IsFiniteSet(Pending(s))
  BY PendingFinite DEF WindowSuffices
<1>3. QED BY <1>1, <1>2 DEF CountInv, Balanced, Claim

\* What a process has in hand stays in order while time goes on.
LEMMA TidyMove ==
  ASSUME Typed, Typed', Timed, Timed', TimeGoesOn, NEW j \in Jobs, NEW r, job'[j] = r,
         TidyCache(r.recent), TidyPoll(r), r.fresh \subseteq DOMAIN topic,
         owner' = j => r.pc # "down"
  PROVE  Tidy(j)'
<1>1. /\ \A o \in DOMAIN topic : o \in DOMAIN topic' /\ SpanAt(o)' = SpanAt(o) /\ RealTime(o)' = RealTime(o)
      /\ \A s \in Spans : Over(s) => Over(s)'
  BY TimeShifts DEF TimeGoesOn
<1>2. \A o \in r.fresh : SpanAt(o)' = SpanAt(o) /\ SpanAt(o) \in Spans
  BY <1>1, SpansTyped
<1>3. TidyPoll(job[j])'
  <2>1. \A p, q \in r.fresh : SpanAt(p)' = SpanAt(q)' => p = q
    BY <1>2 DEF TidyPoll
  <2>2. r.pc = "inserting" => \A p \in r.fresh : ~Knows(r.recent, Key(SpanAt(p)'))
    BY <1>2 DEF TidyPoll
  <2>3. r.pc = "sending" => \A p \in r.fresh : Knows(r.recent, Key(SpanAt(p)')) \/ Over(SpanAt(p))'
    <3>1. SUFFICES ASSUME r.pc = "sending", NEW p \in r.fresh
                   PROVE  Knows(r.recent, Key(SpanAt(p)')) \/ Over(SpanAt(p))'
      OBVIOUS
    <3>2. PICK s \in Spans : s = SpanAt(p) /\ s = SpanAt(p)'
      BY <1>2
    <3>3. Knows(r.recent, Key(s)) \/ Over(s)
      BY <3>1, <3>2 DEF TidyPoll
    <3>4. Over(s)' => Over(SpanAt(p))'
      BY <3>2 DEF Over, RecordsOf
    <3>5. QED BY <1>1, <3>2, <3>3, <3>4
  <2>4. r.pc \notin {"inserting", "sending"} => r.fresh = {} /\ r.stale = FALSE
    BY DEF TidyPoll
  <2>5. QED BY <2>1, <2>2, <2>3, <2>4 DEF TidyPoll
<1>4. TidyCache(job[j].recent)'
  <2>1. r.recent.newest <= now' + MaxSkew
    <3>1. now \in Nat /\ now' \in Nat /\ now <= now' /\ MaxSkew \in Nat
      BY TypedParts, NumbersTyped DEF TimeGoesOn, Typed
    <3>2. r.recent.newest \in Nat
      <4>1. job'[j] \in JobRec
        BY DEF Typed
      <4>2. QED BY <4>1 DEF JobRec, Cache
    <3>3. r.recent.newest <= now + MaxSkew
      BY DEF TidyCache
    <3>4. QED BY <3>1, <3>2, <3>3
  <2>2. \A i \in DOMAIN r.recent.seen :
          \E o \in DOMAIN topic' : Key(SpanAt(o)') = r.recent.seen[i].key /\ RealTime(o)' <= r.recent.seen[i].at
    BY <1>1 DEF TidyCache
  <2>3. \A i, k \in DOMAIN r.recent.seen : r.recent.seen[i].key = r.recent.seen[k].key => i = k
    BY DEF TidyCache
  <2>4. QED BY <2>1, <2>2, <2>3 DEF TidyCache
<1>5. QED BY <1>3, <1>4 DEF Tidy

\* A step of one process: what it does to the polls that have yet to store a span,
LEMMA PendingMove ==
  ASSUME Typed, WindowSuffices, UNCHANGED broker, NEW j \in Jobs, NEW r,
         job' = [job EXCEPT ![j] = r], NEW s \in Spans
  PROVE  /\ Cardinality(Pending(s)) \in Nat /\ Cardinality(Pending(s)') \in Nat
         /\ (ToStore(job[j], s) <=> ToStore(r, s)) => Cardinality(Pending(s)') = Cardinality(Pending(s))
         /\ ToStore(job[j], s) /\ ~ToStore(r, s) => Cardinality(Pending(s)') = Cardinality(Pending(s)) - 1
         /\ ~ToStore(job[j], s) /\ ToStore(r, s) => Cardinality(Pending(s)') = Cardinality(Pending(s)) + 1
<1>1. job'[j] = r /\ \A i \in Jobs : i # j => job'[i] = job[i]
  BY TypedParts
<1>2. \A i \in Jobs : ToStore(job[i], s)' <=> IF i = j THEN ToStore(r, s) ELSE ToStore(job[i], s)
  BY <1>1, TimeStays DEF ToStore
<1>3. Pending(s)' = {i \in Jobs : IF i = j THEN ToStore(r, s) ELSE ToStore(job[i], s)}
  BY <1>2 DEF Pending
<1>4. PICK P, Q : P = Pending(s) /\ Q = Pending(s)'
  OBVIOUS
<1>5. IsFiniteSet(P) /\ Cardinality(P) \in Nat
  BY <1>4, PendingFinite DEF WindowSuffices
<1>6. j \in P <=> ToStore(job[j], s)
  BY <1>4 DEF Pending
<1>7. Q = IF ToStore(r, s) THEN P \cup {j} ELSE P \ {j}
  BY <1>3, <1>4 DEF Pending
<1>8. /\ Cardinality(P \cup {j}) = IF j \in P THEN Cardinality(P) ELSE Cardinality(P) + 1
      /\ Cardinality(P \ {j}) = IF j \in P THEN Cardinality(P) - 1 ELSE Cardinality(P)
      /\ IsFiniteSet(P \cup {j}) /\ IsFiniteSet(P \ {j})
  BY <1>5, FS_AddElement, FS_RemoveElement
<1>9. Cardinality(Q) \in Nat
  BY <1>7, <1>8, FS_CardinalityType
<1>10. QED BY <1>4, <1>5, <1>6, <1>7, <1>8, <1>9

\* and to whether the owner may read one again.
LEMMA ClaimMove ==
  ASSUME Typed, UNCHANGED broker, owner' = owner, owner \in Jobs \cup {Nobody}, NEW j \in Jobs, NEW r,
         job' = [job EXCEPT ![j] = r], NEW s \in Spans
  PROVE  /\ Exposed(s)' => Exposed(s) \/ (owner = j /\ MayRepeat(r, s))
         /\ owner = j => (Exposed(s) <=> MayRepeat(job[j], s)) /\ (Exposed(s)' <=> MayRepeat(r, s))
         /\ Claim(s) = (IF Exposed(s) THEN 1 ELSE 0) /\ Claim(s)' = (IF Exposed(s)' THEN 1 ELSE 0)
<1>1. job'[j] = r /\ \A i \in Jobs : i # j => job'[i] = job[i]
  BY TypedParts
<1>2. \A k : MayRepeat(k, s)' <=> MayRepeat(k, s)
  BY TimeStays DEF MayRepeat, Has
<1>3. owner' = owner /\ Nobody \notin Jobs
  BY EnricherAssumption
<1>4. ASSUME owner \in Jobs PROVE MayRepeat(job[owner], s)' <=> MayRepeat(IF owner = j THEN r ELSE job[owner], s)
  <2>1. job'[owner'] = IF owner = j THEN r ELSE job[owner]
    BY <1>1, <1>3, <1>4
  <2>2. QED BY <2>1, TimeStays DEF MayRepeat, Has
<1>5. Exposed(s)' <=> owner = Nobody \/ MayRepeat(IF owner = j THEN r ELSE job[owner], s)
  BY <1>3, <1>4 DEF Exposed
<1>6. QED BY <1>3, <1>5 DEF Exposed, Claim

\* A step of one process, which may lose it the partition.
LEMMA CountStep ==
  ASSUME CountInv, WindowSuffices, EnricherInv', UNCHANGED broker, NEW j \in Jobs, NEW r,
         job' = [job EXCEPT ![j] = r], TidyCache(r.recent), TidyPoll(r), r.fresh \subseteq DOMAIN topic,
         committed <= committed',
         (owner' = owner /\ (owner = j => r.pc # "down")) \/ owner' = Nobody,
         accidents' \in [Spans -> Nat], \A s \in Spans : Balanced(s)'
  PROVE  CountInv'
<1>1. Typed /\ Typed' /\ Timed
  BY DEF CountInv, EnricherInv
<1>2. Timed' /\ TimeGoesOn
  <2>1. committed' \in Nat
    BY <1>1, TimeStays, TypedParts DEF Typed
  <2>2. QED BY <1>1, <2>1, TimedStays
<1>3. job'[j] = r /\ \A i \in Jobs : i # j => job'[i] = job[i]
  BY <1>1, TypedParts
<1>4. Nobody \notin Jobs
  BY EnricherAssumption
<1>5. Tidy(j)'
  <2>1. owner' = j => r.pc # "down"
    BY <1>4
  <2>2. QED BY <1>1, <1>2, <1>3, <2>1, TidyMove
<1>6. ASSUME NEW i \in Jobs, i # j PROVE Tidy(i)'
  <2>1. PICK k : k = job[i]
    OBVIOUS
  <2>2. TidyCache(k.recent) /\ TidyPoll(k) /\ (owner = i => k.pc # "down")
    BY <2>1 DEF CountInv, Tidy
  <2>3. k.fresh \subseteq DOMAIN topic
    BY <1>1, <2>1, JobTyped
  <2>4. owner' = i => k.pc # "down"
    BY <1>4, <2>2
  <2>5. job'[i] = k
    BY <1>3, <1>6, <2>1
  <2>6. QED BY <1>1, <1>2, <2>2, <2>3, <2>4, <2>5, TidyMove
<1>7. owner' \in Jobs \cup {Nobody}
  BY DEF CountInv
<1>8. QED BY <1>2, <1>5, <1>6, <1>7 DEF CountInv

LEMMA ClaimIs ==
  ASSUME NEW s
  PROVE  /\ Claim(s) \in {0, 1} /\ (Exposed(s) => Claim(s) = 1) /\ (~Exposed(s) => Claim(s) = 0)
         /\ Claim(s)' \in {0, 1} /\ (Exposed(s)' => Claim(s)' = 1) /\ (~Exposed(s)' => Claim(s)' = 0)
BY DEF Claim

LEMMA CountTime ==
  ASSUME CountInv, WindowSuffices, EnricherInv', Timed', TimeGoesOn,
         UNCHANGED <<owner, job, copies, accidents>>
  PROVE  CountInv'
<1>1. Typed /\ Typed' /\ Timed
  BY DEF CountInv, EnricherInv
<1>2. \A s \in Spans : Over(s) => Over(s)'
  BY <1>1, TimeShifts
<1>3. ASSUME NEW j \in Jobs
      PROVE  /\ Tidy(j)'
             /\ \A p \in job[j].fresh : SpanAt(p)' = SpanAt(p)
  <2>1. PICK k : k = job[j]
    OBVIOUS
  <2>2. TidyCache(k.recent) /\ TidyPoll(k) /\ (owner = j => k.pc # "down")
    BY <2>1 DEF CountInv, Tidy
  <2>3. k.fresh \subseteq DOMAIN topic
    BY <1>1, <2>1, JobTyped
  <2>4. Tidy(j)'
    BY <1>1, <2>1, <2>2, <2>3, TidyMove
  <2>5. QED BY <1>1, <2>1, <2>3, <2>4, TimeShifts
<1>4. ASSUME NEW s \in Spans PROVE Balanced(s)'
  <2>1. Pending(s)' = Pending(s)
    BY <1>3 DEF Pending, ToStore
  <2>2. ASSUME NEW j \in Jobs PROVE MayRepeat(job[j], s)' => MayRepeat(job[j], s)
    BY <1>2, <1>3 DEF MayRepeat, Has
  <2>3. Exposed(s)' => Exposed(s)
    <3>1. owner = Nobody \/ owner \in Jobs
      BY DEF CountInv
    <3>2. owner' = owner /\ job' = job
      OBVIOUS
    <3>3. owner \in Jobs => (MayRepeat(job[owner], s)' => MayRepeat(job[owner], s))
      BY <2>2, <3>2 DEF MayRepeat, Has
    <3>4. QED BY <3>1, <3>2, <3>3 DEF Exposed
  <2>4. Claim(s)' <= Claim(s) /\ Claim(s)' \in {0, 1}
    BY <2>3, ClaimIs
  <2>5. QED BY <2>1, <2>4, Counts DEF Balanced
<1>5. QED BY <1>3, <1>4 DEF CountInv

LEMMA DownTidy ==
  ASSUME Typed, NEW r \in {Down, [Down EXCEPT !.pc = "idle"]}
  PROVE  /\ TidyCache(r.recent) /\ TidyPoll(r) /\ r.fresh \subseteq DOMAIN topic
         /\ \A s : ~ToStore(r, s)
<1>1. r.pc \notin {"inserting", "sending"} /\ r.fresh = {} /\ r.recent = EmptyCache
  BY DownTyped
<1>2. r.stale = FALSE
  <2>1. PICK d, i : d = Down /\ i = [d EXCEPT !.pc = "idle"]
    OBVIOUS
  <2>2. d.stale = FALSE /\ i.stale = d.stale
    BY <2>1 DEF Down
  <2>3. QED BY <2>1, <2>2
<1>3. EmptyCache.newest = 0 /\ EmptyCache.seen = <<>> /\ DOMAIN <<>> = {}
  BY DEF EmptyCache
<1>4. now \in Nat /\ MaxSkew \in Nat
  BY TypedParts, NumbersTyped
<1>5. TidyCache(EmptyCache)
  BY <1>3, <1>4 DEF TidyCache
<1>6. TidyPoll(r)
  BY <1>1, <1>2 DEF TidyPoll
<1>7. QED BY <1>1, <1>5, <1>6 DEF ToStore

LEMMA CountStarts ==
  ASSUME CountInv, WindowSuffices, EnricherInv', NEW j \in Jobs, Starts(j)
  PROVE  CountInv'
<1>1. PICK r : r = [Down EXCEPT !.pc = "idle"]
  OBVIOUS
<1>2. /\ Typed /\ UNCHANGED broker /\ job' = [job EXCEPT ![j] = r] /\ job[j].pc = "down"
      /\ UNCHANGED <<committed, owner, copies, accidents>> /\ committed <= committed'
      /\ owner \in Jobs \cup {Nobody} /\ accidents \in [Spans -> Nat]
  BY <1>1, TypedParts DEF Starts, CountInv, EnricherInv, stores, history
<1>3. TidyCache(r.recent) /\ TidyPoll(r) /\ r.fresh \subseteq DOMAIN topic /\ \A s : ~ToStore(r, s)
  BY <1>1, <1>2, DownTidy
<1>4. owner # j
  BY <1>2 DEF CountInv, Tidy
<1>5. ASSUME NEW s \in Spans PROVE Balanced(s)'
  <2>1. ~ToStore(job[j], s)
    BY <1>2 DEF ToStore
  <2>2. Cardinality(Pending(s)') = Cardinality(Pending(s))
    BY <1>2, <1>3, <2>1, PendingMove
  <2>3. Exposed(s)' => Exposed(s)
    BY <1>2, <1>4, ClaimMove
  <2>4. Claim(s)' <= Claim(s) /\ Claim(s)' \in {0, 1}
    BY <2>3, ClaimIs
  <2>5. QED BY <1>2, <2>2, <2>4, Counts DEF Balanced
<1>6. QED BY <1>2, <1>3, <1>4, <1>5, CountStep

\* An accident is one more copy that there may be.
LEMMA Faults ==
  ASSUME accidents \in [Spans -> Nat], NEW spans, Fault(spans)
  PROVE  /\ accidents' \in [Spans -> Nat]
         /\ \A s \in Spans : accidents'[s] = IF s \in spans THEN accidents[s] + 1 ELSE accidents[s]
BY DEF Fault

LEMMA CountLeaves ==
  ASSUME CountInv, WindowSuffices, EnricherInv', NEW j \in Jobs, Leaves(j),
         accidents' \in [Spans -> Nat],
         \A s \in Spans : \/ accidents'[s] = accidents[s] + 1
                          \/ accidents'[s] = accidents[s] /\ job[j].stopping
  PROVE  CountInv'
<1>1. PICK r : r = Down
  OBVIOUS
<1>2. /\ Typed /\ UNCHANGED broker /\ job' = [job EXCEPT ![j] = r]
      /\ UNCHANGED <<committed, copies>> /\ committed <= committed'
      /\ owner' = (IF owner = j THEN Nobody ELSE owner) /\ owner \in Jobs \cup {Nobody}
  BY <1>1, TypedParts DEF Leaves, CountInv, EnricherInv, stores
<1>3. TidyCache(r.recent) /\ TidyPoll(r) /\ r.fresh \subseteq DOMAIN topic /\ \A s : ~ToStore(r, s)
  BY <1>1, <1>2, DownTidy
<1>4. ASSUME NEW s \in Spans PROVE Balanced(s)'
  <2>1. Cardinality(Pending(s)') \in Nat /\ Cardinality(Pending(s)') <= Cardinality(Pending(s))
        /\ Cardinality(Pending(s)) \in Nat
    <3>1. ~ToStore(r, s)
      BY <1>3
    <3>2. /\ Cardinality(Pending(s)) \in Nat /\ Cardinality(Pending(s)') \in Nat
          /\ \/ Cardinality(Pending(s)') = Cardinality(Pending(s))
             \/ Cardinality(Pending(s)') = Cardinality(Pending(s)) - 1
      BY <1>2, <3>1, PendingMove
    <3>3. QED BY <3>2
  <2>2. accidents'[s] \in Nat
    OBVIOUS
  <2>3. CASE accidents'[s] = accidents[s] + 1
    <3>1. Claim(s)' \in {0, 1}
      BY ClaimIs
    <3>2. QED BY <1>2, <2>1, <2>3, <3>1, Counts DEF Balanced
  <2>4. CASE accidents'[s] = accidents[s] /\ job[j].stopping
    <3>1. Exposed(s)' => Exposed(s)
      <4>1. CASE owner = j
        <5>1. job[j].stopping
          BY <2>4
        <5>2. MayRepeat(job[j], s)
          BY <5>1, Zenon DEF MayRepeat
        <5>3. QED BY <4>1, <5>2 DEF Exposed
      <4>2. CASE owner # j
        BY <1>2, <4>2, ClaimMove
      <4>3. QED BY <4>1, <4>2
    <3>2. Claim(s)' <= Claim(s) /\ Claim(s)' \in {0, 1}
      BY <3>1, ClaimIs
    <3>3. QED BY <1>2, <2>1, <2>4, <3>2, Counts DEF Balanced
  <2>5. QED BY <2>3, <2>4
<1>5. QED BY <1>2, <1>3, <1>4, CountStep

LEMMA CountRequestStop ==
  ASSUME CountInv, WindowSuffices, EnricherInv', NEW j \in Jobs, RequestStop(j)
  PROVE  CountInv'
<1>1. PICK k, r : k = job[j] /\ r = [k EXCEPT !.stopping = TRUE]
  OBVIOUS
<1>2. /\ Typed /\ UNCHANGED broker /\ job' = [job EXCEPT ![j] = r]
      /\ UNCHANGED <<committed, copies, owner>> /\ committed <= committed'
      /\ k.pc # "down"
  BY <1>1, TypedParts DEF RequestStop, CountInv, EnricherInv, stores
<1>3. /\ accidents' \in [Spans -> Nat]
      /\ \A s \in Spans : accidents'[s] = accidents[s] + 1
  <2>1. accidents \in [Spans -> Nat] /\ Fault(Spans)
    BY DEF CountInv, RequestStop
  <2>2. QED BY <2>1, Faults
<1>4. k \in JobRec /\ k.fresh \subseteq DOMAIN topic
  BY <1>1, <1>2, JobTyped
<1>5. /\ r.pc = k.pc /\ r.stale = k.stale /\ r.fresh = k.fresh /\ r.acked = k.acked /\ r.recent = k.recent
  BY <1>1, <1>4 DEF JobRec
<1>6. TidyCache(r.recent) /\ TidyPoll(r)
  <2>1. TidyCache(k.recent) /\ TidyPoll(k)
    BY <1>1 DEF CountInv, Tidy
  <2>2. QED BY <1>5, <2>1 DEF TidyPoll
<1>7. ASSUME NEW s \in Spans PROVE Balanced(s)'
  <2>1. ToStore(job[j], s) <=> ToStore(r, s)
    BY <1>1, <1>5 DEF ToStore
  <2>2. Cardinality(Pending(s)') = Cardinality(Pending(s))
    BY <1>2, <2>1, PendingMove
  <2>3. Claim(s)' \in {0, 1}
    BY ClaimIs
  <2>4. QED BY <1>2, <1>3, <2>2, <2>3, Counts DEF Balanced
<1>8. QED BY <1>2, <1>3, <1>4, <1>5, <1>6, <1>7, CountStep

LEMMA CountAssign ==
  ASSUME CountInv, WindowSuffices, EnricherInv', NEW j \in Jobs, Assign(j)
  PROVE  CountInv'
<1>1. /\ Typed /\ Typed' /\ Timed /\ UNCHANGED broker /\ owner' = j
      /\ UNCHANGED <<committed, copies>> /\ committed' \in Nat /\ committed <= committed'
      /\ accidents \in [Spans -> Nat]
  BY TypedParts DEF Assign, CountInv, EnricherInv, stores
<1>2. Timed' /\ TimeGoesOn
  BY <1>1, TimedStays
<1>3. ASSUME NEW i \in Jobs
      PROVE  /\ job'[i].pc = job[i].pc /\ job'[i].fresh = job[i].fresh
             /\ job'[i].acked = job[i].acked /\ job'[i].recent = job[i].recent
             /\ job'[i].pc \notin {"inserting", "sending"} => job'[i].stale = FALSE
  <2>1. PICK k : k = job[i]
    OBVIOUS
  <2>2. k \in JobRec
    BY <1>1, <2>1, JobTyped
  <2>3. job'[i] = [k EXCEPT !.stale = k.pc \notin {"down", "idle"}]
    BY <2>1 DEF Assign
  <2>4. /\ job'[i].pc = k.pc /\ job'[i].fresh = k.fresh /\ job'[i].acked = k.acked /\ job'[i].recent = k.recent
        /\ job'[i].stale = (k.pc \notin {"down", "idle"})
    BY <2>2, <2>3 DEF JobRec
  <2>5. k.pc \in PCs
    BY <2>2 DEF JobRec
  <2>6. job'[i].pc \notin {"inserting", "sending"} => job'[i].stale = FALSE
    BY <2>4, <2>5 DEF PCs
  <2>7. QED BY <2>1, <2>4, <2>6
<1>4. ASSUME NEW i \in Jobs PROVE Tidy(i)'
  <2>1. PICK r : r = job'[i]
    OBVIOUS
  <2>2. TidyCache(r.recent)
    BY <1>3, <2>1 DEF CountInv, Tidy
  <2>3. TidyPoll(r)
    <3>1. PICK k : k = job[i] /\ TidyPoll(k)
      BY DEF CountInv, Tidy
    <3>2. r.pc = k.pc /\ r.fresh = k.fresh /\ r.recent = k.recent
          /\ (r.pc \notin {"inserting", "sending"} => r.stale = FALSE)
      BY <1>3, <2>1, <3>1
    <3>3. QED BY <3>1, <3>2 DEF TidyPoll
  <2>4. r.fresh \subseteq DOMAIN topic
    BY <1>1, <1>3, <2>1, JobTyped
  <2>5. owner' = i => r.pc # "down"
    BY <1>1, <1>3, <2>1 DEF Assign
  <2>6. QED BY <1>1, <1>2, <2>1, <2>2, <2>3, <2>4, <2>5, TidyMove
<1>5. /\ accidents' \in [Spans -> Nat]
      /\ \A s \in Spans : accidents'[s] = accidents[s] + 1 \/ (accidents'[s] = accidents[s] /\ owner = Nobody)
  <2>1. CASE owner = Nobody
    BY <1>1, <2>1 DEF Assign, history
  <2>2. CASE owner # Nobody
    <3>1. Fault(Spans)
      BY <2>2 DEF Assign
    <3>2. QED BY <1>1, <3>1, Faults
  <2>3. QED BY <2>1, <2>2
<1>6. ASSUME NEW s \in Spans PROVE Balanced(s)'
  <2>1. \A i \in Jobs : ToStore(job[i], s)' <=> ToStore(job[i], s)
    BY <1>1, <1>3, TimeStays DEF ToStore
  <2>2. Pending(s)' = Pending(s)
    BY <2>1 DEF Pending
  <2>3. Claim(s)' \in {0, 1} /\ (owner = Nobody => Claim(s) = 1)
    BY ClaimIs DEF Exposed
  <2>4. QED BY <1>1, <1>5, <2>2, <2>3, Counts DEF Balanced
<1>7. owner' \in Jobs \cup {Nobody}
  BY <1>1
<1>8. QED BY <1>2, <1>4, <1>5, <1>6, <1>7 DEF CountInv

\* A poll is what the owner's claim was for.
LEMMA CountPoll ==
  ASSUME CountInv, WindowSuffices, EnricherInv', NEW j \in Jobs, Poll(j)
  PROVE  CountInv'
<1>1. PICK upto \in committed + 1 .. Len(topic) :
        job' = [job EXCEPT ![j] =
                  [@ EXCEPT !.pc = "inserting", !.upto = upto, !.stale = FALSE, !.acked = 0,
                            !.fresh = Fresh(committed + 1 .. upto, job[j].recent),
                            !.envelopes = {o \in committed + 1 .. upto : SpanAt(o).sink = Rejected}]]
  BY DEF Poll
<1>2. PICK polled, fresh, envelopes, k, r :
        /\ polled = committed + 1 .. upto /\ fresh = Fresh(polled, job[j].recent)
        /\ envelopes = {o \in polled : SpanAt(o).sink = Rejected} /\ k = job[j]
        /\ r = [k EXCEPT !.pc = "inserting", !.upto = upto, !.stale = FALSE, !.acked = 0,
                         !.fresh = fresh, !.envelopes = envelopes]
  OBVIOUS
<1>3. /\ Typed /\ Timed /\ UNCHANGED broker
      /\ UNCHANGED <<committed, copies, owner, accidents>> /\ committed <= committed'
      /\ owner = j /\ k.pc = "idle" /\ ~k.stopping /\ accidents \in [Spans -> Nat]
  <2>1. /\ Typed /\ Timed /\ UNCHANGED broker /\ owner = j
        /\ UNCHANGED <<committed, copies, owner, accidents>> /\ accidents \in [Spans -> Nat]
    BY DEF Poll, CountInv, EnricherInv, stores, history
  <2>2. k.pc = "idle" /\ ~k.stopping
    BY <1>2 DEF Poll
  <2>3. QED BY <2>1, <2>2, TypedParts
<1>4. k \in JobRec
  BY <1>2, <1>3, JobTyped
<1>5. /\ job' = [job EXCEPT ![j] = r]
      /\ r.pc = "inserting" /\ r.stale = FALSE /\ r.acked = 0 /\ r.fresh = fresh /\ r.recent = k.recent
      /\ r.stopping = k.stopping
  BY <1>1, <1>2, <1>4, TypedParts DEF JobRec
<1>6. TidyCache(k.recent) /\ TidyPoll(k) /\ k.fresh = {} /\ k.stale = FALSE
  BY <1>2, <1>3 DEF CountInv, Tidy, TidyPoll
<1>7. \A o \in polled : o \in committed + 1 .. Len(topic) /\ o \in DOMAIN topic
                        /\ o \in Nat /\ SpanAt(o) \in Spans
  <2>1. committed \in Nat /\ Len(topic) \in Nat /\ upto \in Nat /\ upto <= Len(topic)
    BY <1>3, TypedParts
  <2>2. ASSUME NEW o \in polled PROVE o \in committed + 1 .. Len(topic) /\ o \in 1..Len(topic) /\ o \in Nat
    BY <1>2, <2>1
  <2>3. QED BY <1>3, <2>2, TypedParts, SpansTyped
<1>8. /\ fresh \subseteq polled
      /\ \A p \in fresh : /\ ~Knows(k.recent, Key(SpanAt(p))) /\ SpanAt(p).sink # Rejected
                          /\ \A q \in polled : q < p /\ SpanAt(q).sink # Rejected => Key(SpanAt(q)) # Key(SpanAt(p))
  BY <1>2 DEF Fresh
<1>9. TidyPoll(r)
  <2>1. ASSUME NEW p \in fresh, NEW q \in fresh, SpanAt(p) = SpanAt(q) PROVE p = q
    <3>1. p \in Nat /\ q \in Nat /\ p \in polled /\ q \in polled
      BY <1>7, <1>8
    <3>2. ~(p < q) /\ ~(q < p)
      BY <1>8, <2>1, <3>1
    <3>3. QED BY <3>1, <3>2
  <2>2. QED BY <1>5, <1>8, <2>1 DEF TidyPoll
<1>10. fresh \subseteq DOMAIN topic
  BY <1>7, <1>8
<1>11. ASSUME NEW s \in Spans PROVE Balanced(s)'
  <2>1. ~ToStore(job[j], s)
    BY <1>2, <1>3 DEF ToStore
  <2>2. /\ Exposed(s) <=> MayRepeat(k, s)
        /\ Exposed(s)' <=> MayRepeat(r, s)
    BY <1>2, <1>3, <1>5, ClaimMove
  <2>3. CASE \E p \in fresh : SpanAt(p) = s
    <3>1. PICK p \in fresh : SpanAt(p) = s
      BY <2>3
    <3>2. ToStore(r, s)
      <4>1. 1..0 = {}
        OBVIOUS
      <4>2. QED BY <1>5, <3>1, <4>1 DEF ToStore
    <3>3. Cardinality(Pending(s)') = Cardinality(Pending(s)) + 1
      BY <1>3, <1>5, <2>1, <3>2, PendingMove
    <3>4. ~Over(s)
      BY <1>3, <1>7, <1>8, <3>1, NotOverYet
    <3>5. ~Has(k, s)
      BY <1>6, <1>8, <3>1 DEF Has
    <3>6. Exposed(s)
      BY <2>2, <3>4, <3>5 DEF MayRepeat
    <3>7. ~Exposed(s)'
      <4>1. Has(r, s)
        BY <1>5, <3>1 DEF Has
      <4>2. ~MayRepeat(r, s)
        BY <1>3, <1>5, <4>1 DEF MayRepeat
      <4>3. QED BY <2>2, <4>2
    <3>8. Claim(s) = 1 /\ Claim(s)' = 0
      BY <3>6, <3>7, ClaimIs
    <3>9. QED BY <1>3, <3>3, <3>8, Counts DEF Balanced
  <2>4. CASE ~ \E p \in fresh : SpanAt(p) = s
    <3>1. ~ToStore(r, s)
      BY <1>5, <2>4 DEF ToStore
    <3>2. Cardinality(Pending(s)') = Cardinality(Pending(s))
      BY <1>3, <1>5, <2>1, <3>1, PendingMove
    <3>3. Has(r, s) <=> Has(k, s)
      BY <1>5, <1>6, <2>4 DEF Has
    <3>4. Exposed(s)' => Exposed(s)
      BY <1>3, <1>5, <1>6, <2>2, <3>3 DEF MayRepeat
    <3>5. Claim(s)' <= Claim(s) /\ Claim(s)' \in {0, 1}
      BY <3>4, ClaimIs
    <3>6. QED BY <1>3, <3>2, <3>5, Counts DEF Balanced
  <2>5. QED BY <2>3, <2>4
<1>12. QED BY <1>3, <1>5, <1>6, <1>9, <1>10, <1>11, CountStep

\* A table's ack settles its claims: the spans of the batch had none of their tables
\* ack before, and what is not of the batch is where it was.
LEMMA BatchIs ==
  ASSUME Typed, NEW j \in Jobs, Inserting(j), NEW r, r = [job[j] EXCEPT !.acked = @ + 1],
         NEW s \in Spans
  PROVE  /\ s \in Batch(j) => ToStore(job[j], s) /\ ~ToStore(r, s)
         /\ s \notin Batch(j) => (ToStore(job[j], s) <=> ToStore(r, s))
<1>1. PICK k, a : k = job[j] /\ a = k.acked
  OBVIOUS
<1>2. k \in JobRec /\ k.pc = "inserting" /\ a < Len(Sinks)
  BY <1>1, JobTyped DEF Inserting
<1>3. Len(Sinks) \in Nat /\ DOMAIN Sinks = 1..Len(Sinks)
  <2>1. Sinks \in Seq(Range(Sinks))
    BY EnricherAssumption
  <2>2. QED BY <2>1, Elements
<1>4. a \in Nat /\ r.pc = "inserting" /\ r.fresh = k.fresh /\ r.acked = a + 1
  BY <1>1, <1>2, <1>3 DEF JobRec
<1>5. \A n \in 1..(a + 1) : n \in DOMAIN Sinks /\ (n \in 1..a \/ n = a + 1)
  BY <1>2, <1>3, <1>4
<1>6. a + 1 \in 1..(a + 1) /\ a + 1 \notin 1..a /\ \A n \in 1..a : n \in 1..(a + 1)
  BY <1>4
<1>7. s \in Batch(j) <=> (\E p \in k.fresh : SpanAt(p) = s) /\ s.sink = Sinks[a + 1]
  BY <1>1 DEF Batch
<1>8. ASSUME s \in Batch(j) PROVE ToStore(k, s) /\ ~ToStore(r, s)
  <2>1. \A n \in 1..a : Sinks[n] # s.sink
    <3>1. ASSUME NEW n \in 1..a, Sinks[n] = s.sink PROVE FALSE
      <4>1. Sinks[n] = Sinks[a + 1] /\ n \in DOMAIN Sinks /\ a + 1 \in DOMAIN Sinks
        BY <1>5, <1>6, <1>7, <1>8, <3>1
      <4>2. n = a + 1
        BY <4>1, EnricherAssumption
      <4>3. QED BY <1>6, <3>1, <4>2
    <3>2. QED BY <3>1
  <2>2. QED BY <1>1, <1>2, <1>4, <1>6, <1>7, <1>8, <2>1 DEF ToStore
<1>9. ASSUME s \notin Batch(j) PROVE ToStore(k, s) <=> ToStore(r, s)
  <2>1. ASSUME \E p \in k.fresh : SpanAt(p) = s
        PROVE  (\A n \in 1..a : Sinks[n] # s.sink) <=> (\A n \in 1..(a + 1) : Sinks[n] # s.sink)
    <3>1. Sinks[a + 1] # s.sink
      BY <1>7, <1>9, <2>1
    <3>2. QED BY <1>5, <1>6, <3>1
  <2>2. QED BY <1>1, <1>2, <1>4, <2>1 DEF ToStore
<1>10. QED BY <1>1, <1>8, <1>9

LEMMA CountAcks ==
  ASSUME CountInv, WindowSuffices, EnricherInv', NEW j \in Jobs, Inserting(j),
         job' = [job EXCEPT ![j].acked = @ + 1], UNCHANGED <<broker, committed, owner>>,
         NEW n \in {1, 2}, Land(Batch(j), n), accidents' \in [Spans -> Nat],
         \A s \in Spans : accidents'[s] = IF s \in Batch(j) THEN accidents[s] + n - 1 ELSE accidents[s]
  PROVE  CountInv'
<1>1. PICK k, r : k = job[j] /\ r = [k EXCEPT !.acked = @ + 1]
  OBVIOUS
<1>2. /\ Typed /\ job' = [job EXCEPT ![j] = r] /\ k.pc = "inserting"
      /\ committed <= committed' /\ owner \in Jobs \cup {Nobody}
  BY <1>1, TypedParts DEF Inserting, CountInv, EnricherInv
<1>3. k \in JobRec /\ k.fresh \subseteq DOMAIN topic
  BY <1>1, <1>2, JobTyped
<1>4. /\ r.pc = k.pc /\ r.stale = k.stale /\ r.fresh = k.fresh /\ r.recent = k.recent
      /\ r.stopping = k.stopping
  BY <1>1, <1>3 DEF JobRec
<1>5. TidyCache(r.recent) /\ TidyPoll(r)
  <2>1. TidyCache(k.recent) /\ TidyPoll(k)
    BY <1>1 DEF CountInv, Tidy
  <2>2. QED BY <1>4, <2>1 DEF TidyPoll
<1>6. ASSUME NEW s \in Spans PROVE Balanced(s)'
  <2>1. MayRepeat(r, s) <=> MayRepeat(k, s)
    BY <1>4 DEF MayRepeat, Has
  <2>2. Exposed(s)' => Exposed(s)
    BY <1>1, <1>2, <2>1, ClaimMove
  <2>3. Claim(s)' <= Claim(s) /\ Claim(s)' \in {0, 1}
    BY <2>2, ClaimIs
  <2>4. copies'[s] = IF s \in Batch(j) THEN copies[s] + n ELSE copies[s]
    BY DEF Land
  <2>5. CASE s \in Batch(j)
    <3>1. ToStore(job[j], s) /\ ~ToStore(r, s)
      BY <1>1, <1>2, <2>5, BatchIs
    <3>2. Cardinality(Pending(s)') = Cardinality(Pending(s)) - 1
      BY <1>2, <3>1, PendingMove
    <3>3. copies'[s] = copies[s] + n /\ accidents'[s] = accidents[s] + n - 1
      BY <2>4, <2>5
    <3>4. QED BY <2>3, <3>2, <3>3, Counts DEF Balanced
  <2>6. CASE s \notin Batch(j)
    <3>1. ToStore(job[j], s) <=> ToStore(r, s)
      BY <1>1, <1>2, <2>6, BatchIs
    <3>2. Cardinality(Pending(s)') = Cardinality(Pending(s))
      BY <1>2, <3>1, PendingMove
    <3>3. copies'[s] = copies[s] /\ accidents'[s] = accidents[s]
      BY <2>4, <2>6
    <3>4. QED BY <2>3, <3>2, <3>3, Counts DEF Balanced
  <2>7. QED BY <2>5, <2>6
<1>7. QED BY <1>2, <1>3, <1>4, <1>5, <1>6, CountStep

LEMMA CountInsertAcks ==
  ASSUME CountInv, WindowSuffices, EnricherInv', NEW j \in Jobs, InsertAcks(j)
  PROVE  CountInv'
<1>1. /\ Inserting(j) /\ job' = [job EXCEPT ![j].acked = @ + 1]
      /\ UNCHANGED <<broker, committed, owner, accidents>> /\ Land(Batch(j), 1)
      /\ accidents \in [Spans -> Nat]
  BY DEF InsertAcks, CountInv, history
<1>2. \A s \in Spans : accidents'[s] = IF s \in Batch(j) THEN accidents[s] + 1 - 1 ELSE accidents[s]
  BY <1>1
<1>3. QED BY <1>1, <1>2, CountAcks

LEMMA CountInsertResent ==
  ASSUME CountInv, WindowSuffices, EnricherInv', NEW j \in Jobs, InsertResent(j)
  PROVE  CountInv'
<1>1. /\ Inserting(j) /\ job' = [job EXCEPT ![j].acked = @ + 1]
      /\ UNCHANGED <<broker, committed, owner>> /\ Land(Batch(j), 2)
      /\ accidents \in [Spans -> Nat] /\ Fault(Batch(j))
  BY DEF InsertResent, CountInv
<1>2. /\ accidents' \in [Spans -> Nat]
      /\ \A s \in Spans : accidents'[s] = IF s \in Batch(j) THEN accidents[s] + 2 - 1 ELSE accidents[s]
  BY <1>1, Faults
<1>3. QED BY <1>1, <1>2, CountAcks

LEMMA CountInsertFails ==
  ASSUME CountInv, WindowSuffices, EnricherInv', NEW j \in Jobs, InsertFails(j)
  PROVE  CountInv'
<1>1. PICK landed \in SUBSET Batch(j) : Land(landed, 1) /\ Fault(landed)
  BY DEF InsertFails
<1>2. /\ UNCHANGED <<topic, now, committed, owner, job>>
      /\ accidents \in [Spans -> Nat] /\ Typed /\ Timed /\ committed' \in Nat /\ committed <= committed'
  BY TypedParts DEF InsertFails, broker, CountInv, EnricherInv
<1>3. PICK r : r = job[j]
  OBVIOUS
<1>4. job' = [job EXCEPT ![j] = r] /\ UNCHANGED broker
  BY <1>2, <1>3, TypedParts DEF broker
<1>5. /\ accidents' \in [Spans -> Nat]
      /\ \A s \in Spans : accidents'[s] = IF s \in landed THEN accidents[s] + 1 ELSE accidents[s]
  BY <1>1, <1>2, Faults
<1>6. /\ TidyCache(r.recent) /\ TidyPoll(r) /\ r.fresh \subseteq DOMAIN topic
      /\ (owner = j => r.pc # "down")
  <2>1. TidyCache(r.recent) /\ TidyPoll(r) /\ (owner = j => r.pc # "down")
    BY <1>3 DEF CountInv, Tidy
  <2>2. QED BY <1>2, <1>3, <2>1, JobTyped
<1>7. ASSUME NEW s \in Spans PROVE Balanced(s)'
  <2>1. Cardinality(Pending(s)') = Cardinality(Pending(s))
    BY <1>2, <1>3, <1>4, PendingMove
  <2>2. owner \in Jobs \cup {Nobody}
    BY DEF CountInv
  <2>3. Exposed(s)' => Exposed(s)
    BY <1>2, <1>3, <1>4, <2>2, ClaimMove
  <2>4. Claim(s)' <= Claim(s) /\ Claim(s)' \in {0, 1}
    BY <2>3, ClaimIs
  <2>5. copies'[s] = IF s \in landed THEN copies[s] + 1 ELSE copies[s]
    BY <1>1 DEF Land
  <2>6. QED BY <1>5, <2>1, <2>4, <2>5, Counts DEF Balanced
<1>8. QED BY <1>2, <1>4, <1>5, <1>6, <1>7, CountStep

LEMMA CountRemembers ==
  ASSUME CountInv, WindowSuffices, EnricherInv', NEW j \in Jobs, Remembers(j)
  PROVE  CountInv'
<1>1. PICK k, recent, r : /\ k = job[j] /\ recent = Remember(k.recent, Entries(k.fresh), now)
                          /\ r = [k EXCEPT !.pc = "sending", !.recent = recent]
  OBVIOUS
<1>2. /\ Typed /\ Timed /\ UNCHANGED broker /\ k.pc = "inserting" /\ k.acked = Len(Sinks)
      /\ UNCHANGED <<committed, copies, owner, accidents>>
      /\ accidents \in [Spans -> Nat] /\ owner \in Jobs \cup {Nobody}
  BY <1>1 DEF Remembers, CountInv, EnricherInv, stores, history
<1>3. job' = [job EXCEPT ![j] = r] /\ committed <= committed'
  <2>1. job' = [job EXCEPT ![j] = r]
    BY <1>1, TypedParts DEF Remembers, CountInv, EnricherInv
  <2>2. QED BY <1>2, <2>1, TypedParts
<1>4. k \in JobRec /\ k.fresh \subseteq DOMAIN topic
  BY <1>1, <1>2, JobTyped
<1>5. /\ r.pc = "sending" /\ r.stale = k.stale /\ r.fresh = k.fresh /\ r.recent = recent
      /\ r.stopping = k.stopping
  BY <1>1, <1>4 DEF JobRec
<1>6. /\ TidyCache(recent)
      /\ \A s \in Spans : Has(k, s) => Knows(recent, Key(s)) \/ Over(s)
  <2>1. Tidy(j)
    BY DEF CountInv
  <2>2. recent = Remember(job[j].recent, Entries(job[j].fresh), now) /\ job[j].pc = "inserting"
    BY <1>1, <1>2
  <2>3. /\ TidyCache(recent)
        /\ \A s \in Spans : Has(job[j], s) => Knows(recent, Key(s)) \/ Over(s)
    BY <1>2, <2>1, <2>2, RememberTidy
  <2>4. QED BY <1>1, <2>3
<1>7. TidyPoll(r)
  <2>1. \A p, q \in k.fresh : SpanAt(p) = SpanAt(q) => p = q
    BY <1>1 DEF CountInv, Tidy, TidyPoll
  <2>2. ASSUME NEW p \in k.fresh PROVE Knows(recent, Key(SpanAt(p))) \/ Over(SpanAt(p))
    <3>1. SpanAt(p) \in Spans
      BY <1>2, <1>4, SpansTyped
    <3>2. Has(k, SpanAt(p))
      BY DEF Has
    <3>3. QED BY <1>6, <3>1, <3>2
  <2>3. QED BY <1>5, <2>1, <2>2 DEF TidyPoll
<1>8. ASSUME NEW s \in Spans PROVE Balanced(s)'
  <2>1. ~ToStore(r, s)
    BY <1>5 DEF ToStore
  <2>2. ~ToStore(job[j], s)
    <3>1. SUFFICES ASSUME NEW p \in k.fresh, SpanAt(p) = s
                   PROVE  \E n \in 1..k.acked : Sinks[n] = s.sink
      BY <1>1 DEF ToStore
    <3>2. s.sink # Rejected
      BY <1>1, <3>1 DEF CountInv, EnricherInv, Remembered
    <3>3. s.sink \in Range(Sinks)
      BY <3>2, EnricherAssumption
    <3>4. DOMAIN Sinks = 1..Len(Sinks)
      <4>1. Sinks \in Seq(Range(Sinks))
        BY EnricherAssumption
      <4>2. QED BY <4>1, Elements
    <3>5. QED BY <1>2, <3>3, <3>4 DEF Range
  <2>3. Cardinality(Pending(s)') = Cardinality(Pending(s))
    BY <1>2, <1>3, <2>1, <2>2, PendingMove
  <2>4. MayRepeat(r, s) => MayRepeat(k, s)
    <3>1. Has(k, s) => Has(r, s) \/ Over(s)
      BY <1>5, <1>6 DEF Has
    <3>2. QED BY <1>5, <3>1 DEF MayRepeat
  <2>5. Exposed(s)' => Exposed(s)
    BY <1>1, <1>2, <1>3, <2>4, ClaimMove
  <2>6. Claim(s)' <= Claim(s) /\ Claim(s)' \in {0, 1}
    BY <2>5, ClaimIs
  <2>7. QED BY <1>2, <2>3, <2>6, Counts DEF Balanced
<1>9. QED BY <1>2, <1>3, <1>4, <1>5, <1>6, <1>7, <1>8, CountStep

\* A step of a poll that has stored its spans.
LEMMA CountQuiet ==
  ASSUME CountInv, WindowSuffices, EnricherInv', NEW j \in Jobs, NEW r,
         UNCHANGED <<broker, copies, owner, accidents>>, committed <= committed',
         job' = [job EXCEPT ![j] = r], TidyPoll(r), r.fresh \subseteq DOMAIN topic,
         job[j].pc = "sending", r.pc \in {"sending", "idle"},
         r.recent = job[j].recent, \A s \in Spans : MayRepeat(r, s) => MayRepeat(job[j], s)
  PROVE  CountInv'
<1>1. /\ Typed /\ accidents \in [Spans -> Nat] /\ owner \in Jobs \cup {Nobody}
      /\ TidyCache(r.recent) /\ UNCHANGED broker
  BY DEF CountInv, EnricherInv, Tidy
<1>2. ASSUME NEW s \in Spans PROVE Balanced(s)'
  <2>1. ~ToStore(r, s) /\ ~ToStore(job[j], s)
    BY DEF ToStore
  <2>2. Cardinality(Pending(s)') = Cardinality(Pending(s))
    BY <1>1, <2>1, PendingMove
  <2>3. Exposed(s)' => Exposed(s)
    BY <1>1, ClaimMove
  <2>4. Claim(s)' <= Claim(s) /\ Claim(s)' \in {0, 1}
    BY <2>3, ClaimIs
  <2>5. QED BY <2>2, <2>4, Counts DEF Balanced
<1>3. QED BY <1>1, <1>2, CountStep

LEMMA CountSends ==
  ASSUME CountInv, WindowSuffices, EnricherInv', NEW j \in Jobs, Sends(j)
  PROVE  CountInv'
<1>1. PICK o \in job[j].envelopes : job' = [job EXCEPT ![j].envelopes = @ \ {o}]
  BY DEF Sends
<1>2. PICK k, r : k = job[j] /\ r = [k EXCEPT !.envelopes = @ \ {o}]
  OBVIOUS
<1>3. /\ Typed /\ k.pc = "sending" /\ job' = [job EXCEPT ![j] = r] /\ committed <= committed'
      /\ UNCHANGED <<broker, copies, owner, accidents>>
  <2>1. Typed /\ UNCHANGED <<broker, committed, copies, owner, accidents>>
    BY DEF Sends, CountInv, EnricherInv, history
  <2>2. k.pc = "sending" /\ job' = [job EXCEPT ![j] = r]
    BY <1>1, <1>2, <2>1, TypedParts DEF Sends
  <2>3. QED BY <2>1, <2>2, TypedParts
<1>4. k \in JobRec /\ k.fresh \subseteq DOMAIN topic
  BY <1>2, <1>3, JobTyped
<1>5. /\ r.pc = "sending" /\ r.stale = k.stale /\ r.fresh = k.fresh /\ r.recent = k.recent
      /\ r.stopping = k.stopping
  BY <1>2, <1>3, <1>4 DEF JobRec
<1>6. TidyPoll(r)
  <2>1. TidyPoll(k)
    BY <1>2 DEF CountInv, Tidy
  <2>2. QED BY <1>3, <1>5, <2>1 DEF TidyPoll
<1>7. \A s \in Spans : MayRepeat(r, s) <=> MayRepeat(k, s)
  BY <1>5 DEF MayRepeat, Has
<1>8. QED BY <1>2, <1>3, <1>4, <1>5, <1>6, <1>7, CountQuiet

LEMMA CountCommits ==
  ASSUME CountInv, WindowSuffices, EnricherInv', NEW j \in Jobs, Commits(j)
  PROVE  CountInv'
<1>1. PICK k, r : /\ k = job[j]
                  /\ r = [k EXCEPT !.pc = "idle", !.upto = 0, !.stale = FALSE, !.fresh = {}, !.acked = 0]
  OBVIOUS
<1>2. /\ Typed /\ k.pc = "sending" /\ UNCHANGED <<broker, copies, owner, accidents>>
      /\ committed' = IF k.stale THEN committed ELSE k.upto
  BY <1>1 DEF Commits, CountInv, EnricherInv, stores, history
<1>3. k \in JobRec
  BY <1>1, <1>2, JobTyped
<1>4. job' = [job EXCEPT ![j] = r]
  BY <1>1, <1>2, TypedParts DEF Commits, EndsPoll
<1>5. /\ r.pc = "idle" /\ r.stale = FALSE /\ r.fresh = {} /\ r.recent = k.recent
      /\ r.stopping = k.stopping
  BY <1>1, <1>3 DEF JobRec
<1>6. committed <= committed'
  <2>1. ~k.stale => committed <= k.upto
    BY <1>1, <1>2 DEF CountInv, EnricherInv, Covers, Busy
  <2>2. QED BY <1>2, <2>1, TypedParts
<1>7. TidyPoll(r)
  BY <1>5 DEF TidyPoll
<1>8. ASSUME NEW s \in Spans, MayRepeat(r, s) PROVE MayRepeat(k, s)
  <2>1. CASE k.stopping
    BY <2>1 DEF MayRepeat
  <2>2. CASE ~Knows(k.recent, Key(s)) /\ ~Over(s)
    <3>1. \A p \in k.fresh : Knows(k.recent, Key(SpanAt(p))) \/ Over(SpanAt(p))
      BY <1>1, <1>2 DEF CountInv, Tidy, TidyPoll
    <3>2. ~Has(k, s)
      BY <2>2, <3>1 DEF Has
    <3>3. QED BY <2>2, <3>2 DEF MayRepeat
  <2>3. QED BY <1>5, <1>8, <2>1, <2>2 DEF MayRepeat, Has
<1>9. r.fresh \subseteq DOMAIN topic
  BY <1>5
<1>10. QED BY <1>1, <1>2, <1>4, <1>5, <1>6, <1>7, <1>8, <1>9, CountQuiet

LEMMA CountNext ==
  ASSUME CountInv, WindowSuffices, EnricherInv', [Next]_vars
  PROVE  CountInv'
<1>1. Typed /\ Timed
  BY DEF CountInv, EnricherInv
<1>2. CASE Tick
  BY <1>1, <1>2, TimedTick, CountTime DEF Tick, stores, history
<1>3. ASSUME NEW s \in Spans, Produce(s) PROVE CountInv'
  BY <1>1, <1>3, TimedProduce, CountTime DEF Produce, stores, history
<1>4. CASE UNCHANGED vars
  <2>1. UNCHANGED <<broker, committed>> /\ committed' \in Nat /\ committed <= committed'
    BY <1>1, <1>4, TypedParts DEF vars, broker
  <2>2. Timed' /\ TimeGoesOn
    BY <1>1, <2>1, TimedStays DEF EnricherInv
  <2>3. QED BY <1>4, <2>2, CountTime DEF vars
<1>5. ASSUME NEW j \in Jobs, Crashes(j) PROVE CountInv'
  <2>1. Leaves(j) /\ Fault(Spans) /\ accidents \in [Spans -> Nat]
    BY <1>5 DEF Crashes, CountInv
  <2>2. accidents' \in [Spans -> Nat] /\ \A s \in Spans : accidents'[s] = accidents[s] + 1
    BY <2>1, Faults
  <2>3. QED BY <2>1, <2>2, CountLeaves
<1>6. ASSUME NEW j \in Jobs, GivesUp(j) PROVE CountInv'
  <2>1. Leaves(j) /\ accidents' = accidents /\ accidents \in [Spans -> Nat] /\ job[j].stopping
    BY <1>6 DEF GivesUp, CountInv, history
  <2>2. QED BY <2>1, CountLeaves
<1>7. ASSUME NEW j \in Jobs, Starts(j) \/ Assign(j) \/ RequestStop(j) PROVE CountInv'
  BY <1>7, CountStarts, CountAssign, CountRequestStop
<1>8. ASSUME NEW j \in Jobs, InsertAcks(j) \/ InsertResent(j) \/ InsertFails(j) PROVE CountInv'
  BY <1>8, CountInsertAcks, CountInsertResent, CountInsertFails
<1>9. ASSUME NEW j \in Jobs, Poll(j) \/ Remembers(j) \/ Sends(j) \/ Commits(j) PROVE CountInv'
  BY <1>9, CountPoll, CountRemembers, CountSends, CountCommits
<1>10. QED BY <1>2, <1>3, <1>4, <1>5, <1>6, <1>7, <1>8, <1>9 DEF Next, Works

LEMMA CountInit ==
  ASSUME Init, WindowSuffices
  PROVE  CountInv
<1>1. /\ topic = <<>> /\ committed = 0 /\ owner = Nobody /\ now = 0
      /\ \A j \in Jobs : job[j] = Down
  BY DEF Init
<1>2. /\ \A s \in Spans : copies[s] = 0 /\ accidents[s] = 0
      /\ accidents \in [Spans -> Nat]
  BY DEF Init
<1>3. EnricherInv /\ Typed
  BY EnricherInit DEF EnricherInv
<1>4. DOMAIN topic = {} /\ Len(topic) = 0 /\ 0 + 1 .. 0 = {}
  BY <1>1
<1>5. Timed
  <2>1. \A s \in Spans : RecordsOf(s) = {}
    BY <1>4 DEF RecordsOf
  <2>2. Cardinality({}) = 0 /\ 0 <= MaxCopies
    BY FS_EmptySet, NumbersTyped
  <2>3. \A s \in Spans : /\ Cardinality(RecordsOf(s)) <= MaxCopies
                         /\ \A o, p \in RecordsOf(s) :
                              RealTime(p) <= RealTime(o) + Spread(Cardinality(RecordsOf(s)))
    BY <2>1, <2>2
  <2>4. \A o \in committed + 1 .. Len(topic) : now <= RealTime(o) + MaxLag
    BY <1>1, <1>4
  <2>5. \A o \in DOMAIN topic : RealTime(o) \in Nat /\ RealTime(o) <= now
    BY <1>4
  <2>6. QED BY <2>3, <2>4, <2>5 DEF Timed
<1>6. ASSUME NEW j \in Jobs PROVE Tidy(j) /\ \A s : ~ToStore(job[j], s)
  <2>1. TidyCache(Down.recent) /\ TidyPoll(Down) /\ \A s : ~ToStore(Down, s)
    BY <1>3, DownTidy
  <2>2. owner # j
    BY <1>1, EnricherAssumption
  <2>3. QED BY <1>1, <2>1, <2>2 DEF Tidy
<1>7. ASSUME NEW s \in Spans PROVE Balanced(s)
  <2>1. Pending(s) = {}
    BY <1>6 DEF Pending
  <2>2. Cardinality(Pending(s)) = 0
    BY <2>1, FS_EmptySet
  <2>3. Claim(s) \in {0, 1}
    BY ClaimIs
  <2>4. QED BY <1>2, <2>2, <2>3 DEF Balanced
<1>8. QED BY <1>1, <1>2, <1>3, <1>5, <1>6, <1>7 DEF CountInv

\* A usage view counts a span twice only by accident (RecentEventIds, dedup.py, whose
\* window is sized by the collector's retries): with a window that outlasts the retries
\* of the producers, the lag of the group and the clock skew that the cache allows for, and
\* room in the cache for the spans there are, each restart, stop, rebalance and
\* doubled insert adds one to a span at the most, and nothing else does.
THEOREM CountedOnceButForAccidents == WindowSuffices => (Spec => []OverCountedByAccident)
<1>1. WindowSuffices /\ Init => CountInv
  BY CountInit
<1>2. WindowSuffices /\ CountInv /\ EnricherInv' /\ [Next]_vars => CountInv'
  BY CountNext
<1>3. WindowSuffices /\ CountInv => OverCountedByAccident
  <2>1. SUFFICES ASSUME WindowSuffices, CountInv, NEW s \in Spans PROVE copies[s] <= 1 + accidents[s]
    BY DEF OverCountedByAccident
  <2>2. QED BY <2>1, Counts
<1>4. WindowSuffices' <=> WindowSuffices
  BY DEF WindowSuffices
<1>5. QED BY <1>1, <1>2, <1>3, <1>4, EnricherHolds, PTL DEF Spec
=============================================================================
