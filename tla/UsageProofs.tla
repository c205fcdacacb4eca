----------------------------- MODULE UsageProofs -----------------------------
(* Theorems about AgentUsage for any number of runs here and elsewhere, any    *)
(* cap and window, and any delays that UsageAssumption allows: the gap between *)
(* what the platform counted and what the ledger adds is closed by Margin;     *)
(* about RunBoundary for any number of runs and any sequence of policies; and  *)
(* about AuditSender and ClientDocuments for any number of threads, senders,   *)
(* clients and events, and any room of the queue and the cache.                *)
EXTENDS MCUsage, SequenceTheorems, FiniteSetTheorems, TLAPS

Everything == Runs \cup Others

\* A run in the window.
Dated(e) == started[e] # None /\ now - RunsWindow <= started[e]

\* What an answer for a query that began at t cannot miss: a run Lag older.
Complete(A, t) == \A e \in Everything : Dated(e) /\ started[e] < t - Lag => e \in A

\* What an answer for a request made at t cannot miss: a run Margin older.
Covers(A, t) == \A e \in Everything : Dated(e) /\ started[e] <= t - Margin => e \in A

\* The pipeline: no run is older than Lag and not counted.
Lagging ==
  \A e \in Everything : started[e] # None =>
    started[e] <= now /\ (e \notin ingested => now - started[e] <= Lag)

Recorded == \A r \in recorded : started[r] # None

MemoTrue ==
  memo # None =>
    /\ memo.at <= now /\ Complete(memo.counted, memo.at)
    /\ IF memo.expires = None THEN now - memo.at <= ReadTimeout
       ELSE memo.expires <= memo.at + ReadTimeout + MemoTTL

FetchTrue ==
  fetch # None =>
    /\ fetch.at <= now
    /\ IF fetch.answer = None THEN Cap!Pending ELSE Covers(fetch.answer, fetch.at)

SnapshotTrue ==
  snapshot # None => snapshot.at <= now /\ Covers(snapshot.answer, snapshot.at)

CapInv == Cap!TypeOK /\ Lagging /\ Recorded /\ MemoTrue /\ FetchTrue /\ SnapshotTrue

-----------------------------------------------------------------------------
(* Each conjunct is kept.                                                  *)

LEMMA Sizes ==
  /\ \A S : Cap!IsFiniteSet(S) <=> IsFiniteSet(S)
  /\ \A S : Cap!Cardinality(S) = Cardinality(S)
BY DEF Cap!IsFiniteSet, IsFiniteSet, Cap!Cardinality, Cardinality

LEMMA CapInit == ASSUME Cap!UsageAssumption PROVE Cap!Init => CapInv
<1>. SUFFICES ASSUME Cap!Init PROVE CapInv OBVIOUS
<1>1. Cap!TypeOK BY DEF Cap!Init, Cap!TypeOK, Cap!UsageAssumption, Cap!PCs
<1>2. Lagging /\ Recorded /\ MemoTrue /\ FetchTrue /\ SnapshotTrue
  BY DEF Cap!Init, Lagging, Recorded, MemoTrue, FetchTrue, SnapshotTrue, Everything
<1>3. QED BY <1>1, <1>2 DEF CapInv

LEMMA NewReadTyped ==
  ASSUME Cap!UsageAssumption, Cap!TypeOK
  PROVE  /\ Cap!NewRead \in Cap!Memo /\ Cap!NewRead # None
         /\ Cap!NewRead.at = now /\ Cap!NewRead.expires = None /\ Cap!NewRead.counted = Cap!Counted
         /\ None \notin SUBSET Everything
<1>1. Cap!Counted \in SUBSET (Runs \cup Others)
  BY DEF Cap!Counted, Cap!StartedSince, Cap!TypeOK
<1>2. now \in Nat
  BY DEF Cap!TypeOK
<1>3. Cap!NewRead \in Cap!Memo
  BY <1>1, <1>2 DEF Cap!NewRead, Cap!Memo
<1>4. QED BY <1>3 DEF Cap!NewRead, Cap!UsageAssumption, Everything

LEMMA TypeStep ==
  ASSUME Cap!UsageAssumption, Cap!TypeOK, [Cap!Next]_(Cap!vars)
  PROVE  Cap!TypeOK'
<1>. USE DEF Cap!TypeOK
<1>1. CASE UNCHANGED Cap!vars BY <1>1 DEF Cap!vars
<1>2. ASSUME NEW r \in Runs, Cap!CheckDeclares(r) PROVE Cap!TypeOK'
  BY <1>2 DEF Cap!CheckDeclares, Cap!Goes, Cap!PCs
<1>3. ASSUME NEW r \in Runs, Cap!Decide(r) PROVE Cap!TypeOK'
  BY <1>3 DEF Cap!Decide, Cap!Goes, Cap!PCs
<1>4. ASSUME NEW r \in Runs, Cap!Open(r) PROVE Cap!TypeOK'
  BY <1>4 DEF Cap!Open, Cap!Goes, Cap!PCs
<1>5. CASE Cap!SwapPolicy BY <1>5 DEF Cap!SwapPolicy
<1>6. ASSUME NEW e \in Others, Cap!StartElsewhere(e) PROVE Cap!TypeOK'
  BY <1>6 DEF Cap!StartElsewhere
<1>7. ASSUME NEW e \in Everything, Cap!Ingest(e) PROVE Cap!TypeOK'
  BY <1>7 DEF Cap!Ingest, Everything
<1>8. CASE Cap!AskElsewhere BY <1>8, NewReadTyped DEF Cap!AskElsewhere
<1>9. CASE Cap!Ask
  <2>0. \A A \in (SUBSET (Runs \cup Others)) \cup {None} : [at |-> now, answer |-> A] \in Cap!Fetch
    <3>1. now \in Nat OBVIOUS
    <3>2. QED BY ONLY <3>1 DEF Cap!Fetch
  <2>1. CASE Cap!MemoServes
    <3>1. memo \in Cap!Memo
      BY <2>1 DEF Cap!MemoServes
    <3>2. memo.counted \in SUBSET (Runs \cup Others)
      BY <3>1 DEF Cap!Memo
    <3>3. \E A \in (SUBSET (Runs \cup Others)) \cup {None} :
            fetch' = [at |-> now, answer |-> A]
      BY <1>9, <2>1, <3>2 DEF Cap!Ask
    <3>4. fetch' \in Cap!Fetch
      BY ONLY <2>0, <3>3
    <3>5. QED BY <1>9, <2>1, <3>4 DEF Cap!Ask
  <2>2. CASE ~Cap!MemoServes
    <3>1. memo' = Cap!NewRead /\ fetch' = [at |-> now, answer |-> None]
      BY <1>9, <2>2 DEF Cap!Ask
    <3>2. fetch' \in Cap!Fetch
      BY ONLY <2>0, <3>1
    <3>3. QED BY <1>9, <3>1, <3>2, NewReadTyped DEF Cap!Ask
  <2>3. QED BY <2>1, <2>2
<1>10. CASE Cap!Settle
  <2>1. [memo EXCEPT !.expires = now + MemoTTL] \in Cap!Memo
    BY <1>10 DEF Cap!Settle, Cap!Pending, Cap!Memo, Cap!UsageAssumption
  <2>2. fetch # None => [fetch EXCEPT !.answer = memo.counted] \in Cap!Fetch
    BY <1>10 DEF Cap!Settle, Cap!Pending, Cap!Memo, Cap!Fetch
  <2>3. QED BY <1>10, <2>1, <2>2 DEF Cap!Settle
<1>11. CASE Cap!ReadFails BY <1>11 DEF Cap!ReadFails
<1>12. CASE Cap!Answer BY <1>12 DEF Cap!Answer
<1>13. CASE Cap!FetchFails BY <1>13 DEF Cap!FetchFails
<1>14. CASE Cap!Tick
  BY <1>14 DEF Cap!Tick, Cap!UsageAssumption
<1>15. QED BY <1>1, <1>2, <1>3, <1>4, <1>5, <1>6, <1>7, <1>8, <1>9, <1>10, <1>11,
              <1>12, <1>13, <1>14 DEF Cap!Next, Everything

\* The steps that change no run, no clock and nothing on its way from the platform.
LEMMA PipelineStep ==
  ASSUME Cap!UsageAssumption, Cap!TypeOK, Lagging, Recorded, [Cap!Next]_(Cap!vars)
  PROVE  Lagging' /\ Recorded'
<1>. USE DEF Cap!TypeOK, Lagging, Recorded, Everything, Cap!UsageAssumption
<1>1. CASE UNCHANGED <<now, started, ingested, recorded>> BY <1>1
<1>2. ASSUME NEW r \in Runs, Cap!Open(r) PROVE Lagging' /\ Recorded'
  <2>1. \A e \in Everything : started'[e] = started[e] \/ started'[e] = now
    BY <1>2 DEF Cap!Open
  <2>2. \A q \in recorded' : q \in recorded \/ q = r
    BY <1>2 DEF Cap!Open
  <2>3. started'[r] = now /\ now \in Nat /\ now # None
    BY <1>2 DEF Cap!Open
  <2>4. now' = now /\ ingested' = ingested /\ now - now = 0 /\ 0 <= Lag
    BY <1>2 DEF Cap!Open
  <2>5. Lagging' BY <2>1, <2>4, <2>3
  <2>6. Recorded' BY <2>1, <2>2, <2>3
  <2>7. QED BY <2>5, <2>6
<1>3. ASSUME NEW e \in Others, Cap!StartElsewhere(e) PROVE Lagging' /\ Recorded'
  <2>1. \A x \in Everything : started'[x] = started[x] \/ started'[x] = now
    BY <1>3 DEF Cap!StartElsewhere
  <2>2. now \in Nat /\ now # None /\ recorded \subseteq Everything
    OBVIOUS
  <2>3. now' = now /\ ingested' = ingested /\ recorded' = recorded /\ now - now = 0 /\ 0 <= Lag
    BY <1>3 DEF Cap!StartElsewhere
  <2>4. Lagging' BY <2>1, <2>2, <2>3
  <2>5. Recorded' BY <2>1, <2>2, <2>3
  <2>6. QED BY <2>4, <2>5
<1>4. ASSUME NEW e \in Everything, Cap!Ingest(e) PROVE Lagging' /\ Recorded'
  BY <1>4 DEF Cap!Ingest
<1>5. CASE Cap!Tick
  BY <1>5 DEF Cap!Tick
<1>6. ASSUME ~UNCHANGED <<now, started, ingested, recorded>>
      PROVE  \/ \E r \in Runs : Cap!Open(r)
             \/ \E e \in Others : Cap!StartElsewhere(e)
             \/ \E e \in Everything : Cap!Ingest(e)
             \/ Cap!Tick
  BY <1>6 DEF Cap!Next, Cap!vars, Cap!CheckDeclares, Cap!Decide, Cap!SwapPolicy,
         Cap!AskElsewhere, Cap!Ask,
              Cap!Settle, Cap!ReadFails, Cap!Answer, Cap!FetchFails
<1>7. QED BY <1>1, <1>2, <1>3, <1>4, <1>5, <1>6

\* The numbers the delays are made of.
LEMMA Delays ==
  ASSUME Cap!UsageAssumption
  PROVE  /\ Lag \in Nat /\ ReadTimeout \in Nat /\ MemoTTL \in Nat /\ Margin \in Nat /\ RunsWindow \in Nat
         /\ MemoTTL > 0 /\ Margin >= Lag + ReadTimeout + MemoTTL
BY DEF Cap!UsageAssumption

\* Time takes runs out of the window; a run that starts is younger than any answer.
LEMMA AnswersAge ==
  ASSUME Cap!UsageAssumption, Cap!TypeOK, [Cap!Next]_(Cap!vars), NEW A, NEW t \in Nat, t <= now
  PROVE  /\ Complete(A, t) => Complete(A, t)'
         /\ Covers(A, t) => Covers(A, t)'
<1>1. now \in Nat /\ now' \in Nat /\ now <= now'
  <2>1. now' = now \/ now' = now + 1
    BY DEF Cap!Next, Cap!vars, Cap!CheckDeclares, Cap!Decide, Cap!Open, Cap!SwapPolicy,
           Cap!StartElsewhere, Cap!Ingest,
           Cap!AskElsewhere, Cap!Ask, Cap!Settle, Cap!ReadFails, Cap!Answer,
           Cap!FetchFails, Cap!Tick
  <2>2. QED BY <2>1 DEF Cap!TypeOK
<1>2. \A e \in Everything :
        \/ started'[e] = started[e]
        \/ started'[e] = now
  <2>1. CASE UNCHANGED started BY <2>1
  <2>2. ASSUME NEW r \in Runs, Cap!Open(r) PROVE \A e \in Everything : started'[e] = started[e] \/ started'[e] = now
    BY <2>2 DEF Cap!Open, Cap!TypeOK, Everything
  <2>3. ASSUME NEW o \in Others, Cap!StartElsewhere(o)
        PROVE  \A e \in Everything : started'[e] = started[e] \/ started'[e] = now
    BY <2>3 DEF Cap!StartElsewhere, Cap!TypeOK, Everything
  <2>4. ASSUME ~UNCHANGED started
        PROVE  (\E r \in Runs : Cap!Open(r)) \/ (\E e \in Others : Cap!StartElsewhere(e))
    BY <2>4 DEF Cap!Next, Cap!vars, Cap!CheckDeclares, Cap!Decide, Cap!SwapPolicy,
           Cap!Ingest,
           Cap!AskElsewhere, Cap!Ask, Cap!Settle, Cap!ReadFails, Cap!Answer,
           Cap!FetchFails, Cap!Tick
  <2>5. QED BY <2>1, <2>2, <2>3, <2>4
<1>3. \A e \in Everything : started[e] \in Nat \cup {None}
  BY DEF Cap!TypeOK, Everything
<1>4. \A e \in Everything : Dated(e)' => started'[e] # None /\ now' - RunsWindow <= started'[e]
  BY DEF Dated
<1>5. \A e \in Everything : Dated(e)' /\ started'[e] = started[e] => Dated(e)
  BY <1>1, <1>3, <1>4, Delays DEF Dated
<1>6. \A e \in Everything :
        started'[e] = now => ~(started'[e] < t - Lag) /\ ~(started'[e] <= t - Margin)
  BY <1>1, Delays
<1>7. Complete(A, t) => Complete(A, t)'
  BY <1>2, <1>5, <1>6 DEF Complete
<1>8. Covers(A, t) => Covers(A, t)'
  BY <1>2, <1>5, <1>6 DEF Covers
<1>9. QED BY <1>7, <1>8

\* A query that begins now misses no run older than Lag.
LEMMA ReadsAreComplete ==
  ASSUME Cap!UsageAssumption, Cap!TypeOK, Lagging
  PROVE  Complete(Cap!Counted, now)
<1>1. SUFFICES ASSUME NEW e \in Everything, Dated(e), started[e] < now - Lag
               PROVE  e \in Cap!Counted
  BY DEF Complete
<1>2. now \in Nat /\ started[e] \in Nat
  BY <1>1 DEF Cap!TypeOK, Everything, Dated
<1>3. e \in ingested
  BY <1>1, <1>2, Delays DEF Lagging, Dated
<1>4. QED BY <1>1, <1>2, <1>3 DEF Cap!Counted, Cap!StartedSince, Dated

\* An answer is as good for a request as its age: the query began at most ReadTimeout
\* and less than MemoTTL before the request.
LEMMA AnswersCover ==
  ASSUME Cap!UsageAssumption, Cap!TypeOK, NEW A, NEW begun \in Int, NEW t \in Nat,
         Complete(A, begun), t < begun + ReadTimeout + MemoTTL
  PROVE  Covers(A, t)
<1>1. SUFFICES ASSUME NEW e \in Everything, Dated(e), started[e] <= t - Margin
               PROVE  e \in A
  BY DEF Covers
<1>2. started[e] \in Nat
  BY <1>1 DEF Cap!TypeOK, Everything, Dated
<1>3. started[e] < begun - Lag
  BY <1>1, <1>2, Delays
<1>4. QED BY <1>1, <1>3 DEF Complete

LEMMA MemoStep ==
  ASSUME Cap!UsageAssumption, Cap!TypeOK, Cap!TypeOK', Lagging, MemoTrue, [Cap!Next]_(Cap!vars)
  PROVE  MemoTrue'
<1>1. SUFFICES ASSUME memo' # None PROVE MemoTrue'
  BY DEF MemoTrue
<1>2. now \in Nat /\ now' \in Nat
  BY DEF Cap!TypeOK
<1>3. ASSUME memo' = memo
      PROVE  memo.at \in Nat /\ memo.at <= now /\ Complete(memo.counted, memo.at)'
  <2>1. memo.at \in Nat /\ memo.at <= now /\ Complete(memo.counted, memo.at)
    BY <1>1, <1>3 DEF MemoTrue, Cap!TypeOK, Cap!Memo
  <2>2. PICK A, t : A = memo.counted /\ t = memo.at
    OBVIOUS
  <2>3. Complete(A, t)'
    BY <2>1, <2>2, AnswersAge
  <2>4. memo'.counted = A /\ memo'.at = t
    BY <1>3, <2>2
  <2>5. Complete(memo.counted, memo.at)'
    BY <2>3, <2>4 DEF Complete
  <2>6. QED BY <2>1, <2>5
<1>4. CASE UNCHANGED <<memo, now>>
  BY <1>1, <1>3, <1>4 DEF MemoTrue
<1>5. CASE memo' = Cap!NewRead /\ UNCHANGED now
  <2>1. Complete(Cap!Counted, now)
    BY ReadsAreComplete
  <2>2. PICK A, t : A = Cap!Counted /\ t = now
    OBVIOUS
  <2>3. Complete(A, t)'
    BY <1>2, <2>1, <2>2, AnswersAge
  <2>4. memo'.counted = A /\ memo'.at = t /\ memo'.expires = None
    BY <1>5, <2>2, NewReadTyped
  <2>5. Complete(memo.counted, memo.at)'
    BY <2>3, <2>4 DEF Complete
  <2>6. now' = t /\ now - now <= ReadTimeout
    BY <1>2, <1>5, <2>2, Delays
  <2>7. QED BY <1>2, <2>2, <2>4, <2>5, <2>6 DEF MemoTrue
<1>6. CASE Cap!Settle
  <2>1. Cap!Pending /\ memo' = [memo EXCEPT !.expires = now + MemoTTL] /\ now' = now
    BY <1>6 DEF Cap!Settle
  <2>2. memo # None /\ memo.at \in Nat /\ memo.at <= now /\ now - memo.at <= ReadTimeout
        /\ Complete(memo.counted, memo.at) /\ memo \in Cap!Memo
    BY <2>1 DEF Cap!Pending, MemoTrue, Cap!TypeOK, Cap!Memo
  <2>3. PICK A, t : A = memo.counted /\ t = memo.at
    OBVIOUS
  <2>4. Complete(A, t)'
    BY <2>2, <2>3, AnswersAge
  <2>5. memo'.counted = A /\ memo'.at = t /\ memo'.expires = now + MemoTTL
    BY <2>1, <2>2, <2>3 DEF Cap!Memo
  <2>6. Complete(memo.counted, memo.at)'
    BY <2>4, <2>5 DEF Complete
  <2>7. now + MemoTTL <= memo.at + ReadTimeout + MemoTTL /\ now + MemoTTL \in Nat
    BY <1>2, <2>2, Delays
  <2>8. now + MemoTTL # None
    BY <2>7 DEF Cap!UsageAssumption
  <2>9. QED BY <2>1, <2>2, <2>3, <2>5, <2>6, <2>7, <2>8 DEF MemoTrue
<1>7. CASE Cap!Tick
  <2>1. memo' = memo /\ now' = now + 1 /\ (Cap!Pending => now - memo.at < ReadTimeout)
    BY <1>7 DEF Cap!Tick
  <2>2. memo.at \in Nat /\ memo.at <= now /\ Complete(memo.counted, memo.at)'
    BY <1>3, <2>1
  <2>3. memo.expires = None => now + 1 - memo.at <= ReadTimeout
    BY <1>1, <1>2, <2>1, <2>2, Delays DEF Cap!Pending
  <2>4. memo.expires # None => memo.expires <= memo.at + ReadTimeout + MemoTTL
    BY <1>1, <2>1 DEF MemoTrue
  <2>5. memo'.at <= now'
    BY <1>2, <2>1, <2>2
  <2>6. IF memo'.expires = None THEN now' - memo'.at <= ReadTimeout
        ELSE memo'.expires <= memo'.at + ReadTimeout + MemoTTL
    BY <1>2, <2>1, <2>2, <2>3, <2>4
  <2>7. QED BY <2>2, <2>5, <2>6 DEF MemoTrue
<1>8. \/ UNCHANGED <<memo, now>> \/ (memo' = Cap!NewRead /\ UNCHANGED now)
      \/ Cap!Settle \/ Cap!Tick \/ memo' = None
  BY DEF Cap!Next, Cap!vars, Cap!CheckDeclares, Cap!Decide, Cap!Open, Cap!SwapPolicy,
         Cap!StartElsewhere, Cap!Ingest,
         Cap!AskElsewhere, Cap!Ask, Cap!ReadFails, Cap!Answer, Cap!FetchFails
<1>9. QED BY <1>1, <1>4, <1>5, <1>6, <1>7, <1>8

\* While a query runs, now is at most ReadTimeout past its beginning, and then past a
\* request that shares it; a query that is over serves for less than MemoTTL more.
LEMMA MemoAnswers ==
  ASSUME Cap!UsageAssumption, Cap!TypeOK, MemoTrue, memo # None, NEW t \in Nat, t <= now,
         \/ Cap!Pending
         \/ t = now /\ memo.expires # None /\ now < memo.expires
  PROVE  Covers(memo.counted, t)
<1>1. /\ memo.at \in Nat /\ memo.expires \in Nat \cup {None}
      /\ Complete(memo.counted, memo.at) /\ now \in Nat
  BY DEF Cap!TypeOK, Cap!Memo, MemoTrue
<1>2. t < memo.at + ReadTimeout + MemoTTL
  <2>1. CASE Cap!Pending
    <3>1. now - memo.at <= ReadTimeout
      BY <2>1 DEF MemoTrue, Cap!Pending
    <3>2. QED BY <1>1, <3>1, Delays
  <2>2. CASE t = now /\ memo.expires # None /\ now < memo.expires
    <3>1. memo.expires <= memo.at + ReadTimeout + MemoTTL /\ memo.expires \in Nat
      BY <1>1, <2>2 DEF MemoTrue
    <3>2. QED BY <1>1, <2>2, <3>1, Delays
  <2>3. QED BY <2>1, <2>2
<1>3. QED BY <1>1, <1>2, AnswersCover

LEMMA FetchStep ==
  ASSUME Cap!UsageAssumption, Cap!TypeOK, Cap!TypeOK', MemoTrue, FetchTrue, [Cap!Next]_(Cap!vars)
  PROVE  FetchTrue'
<1>1. SUFFICES ASSUME fetch' # None PROVE FetchTrue'
  BY DEF FetchTrue
<1>2. now \in Nat /\ now' \in Nat
  BY DEF Cap!TypeOK
<1>3. ASSUME fetch # None
      PROVE  fetch \in Cap!Fetch /\ fetch.at \in Nat /\ fetch.at <= now
             /\ fetch.answer \in (SUBSET (Runs \cup Others)) \cup {None}
  BY <1>3 DEF FetchTrue, Cap!TypeOK, Cap!Fetch
<1>4. ASSUME NEW A, NEW t \in Nat, t <= now, Covers(A, t) PROVE Covers(A, t)'
  BY <1>4, AnswersAge
<1>5. CASE UNCHANGED <<fetch, memo>> /\ (now' = now \/ now' = now + 1)
  <2>1. fetch.at \in Nat /\ fetch.at <= now /\ fetch'.at = fetch.at /\ fetch'.answer = fetch.answer
    BY <1>1, <1>3, <1>5
  <2>2. fetch'.at <= now'
    BY <1>2, <1>5, <2>1
  <2>3. CASE fetch.answer = None
    BY <1>1, <1>5, <2>2, <2>3 DEF FetchTrue, Cap!Pending
  <2>4. CASE fetch.answer # None
    <3>1. PICK A, t : A = fetch.answer /\ t = fetch.at
      OBVIOUS
    <3>2. Covers(A, t)
      BY <1>1, <1>5, <2>4, <3>1 DEF FetchTrue
    <3>3. Covers(A, t)'
      BY <1>4, <2>1, <3>1, <3>2
    <3>4. Covers(fetch.answer, fetch.at)'
      BY <2>1, <3>1, <3>3
    <3>5. QED BY <2>1, <2>2, <2>4, <3>4 DEF FetchTrue
  <2>5. QED BY <2>3, <2>4
<1>6. ASSUME NEW A, NEW t \in Nat, A # None, t <= now, Covers(A, t), now' = now,
             fetch'.at = t, fetch'.answer = A
      PROVE  FetchTrue'
  <2>1. Covers(A, t)'
    BY <1>4, <1>6
  <2>2. Covers(fetch.answer, fetch.at)'
    BY <1>6, <2>1
  <2>3. QED BY <1>6, <2>2 DEF FetchTrue
<1>7. ASSUME memo # None PROVE memo.counted \in SUBSET (Runs \cup Others)
  BY <1>7 DEF Cap!TypeOK, Cap!Memo
<1>8. None \notin SUBSET (Runs \cup Others)
  BY DEF Cap!UsageAssumption
<1>9. CASE Cap!Ask /\ Cap!MemoServes /\ ~Cap!Pending
  <2>1. memo # None /\ memo.expires # None /\ now < memo.expires
    BY <1>9 DEF Cap!MemoServes, Cap!Pending
  <2>2. Covers(memo.counted, now)
    BY <1>2, <2>1, MemoAnswers
  <2>3. now' = now /\ fetch' = [at |-> now, answer |-> memo.counted]
    BY <1>9 DEF Cap!Ask
  <2>4. memo.counted # None
    BY <1>7, <1>8, <2>1
  <2>5. QED BY <1>2, <1>6, <2>2, <2>3, <2>4
<1>10. CASE Cap!Ask /\ (Cap!MemoServes => Cap!Pending)
  <2>1. now' = now /\ fetch' = [at |-> now, answer |-> None]
    BY <1>10 DEF Cap!Ask
  <2>2. Cap!Pending'
    <3>1. CASE Cap!MemoServes
      BY <1>10, <3>1 DEF Cap!Ask, Cap!Pending
    <3>2. CASE ~Cap!MemoServes
      BY <1>10, <3>2, NewReadTyped DEF Cap!Ask, Cap!Pending
    <3>3. QED BY <3>1, <3>2
  <2>3. fetch'.at <= now' /\ fetch'.answer = None
    BY <1>2, <2>1
  <2>4. QED BY <2>2, <2>3 DEF FetchTrue
<1>11. CASE Cap!AskElsewhere
  <2>1. ~Cap!Pending /\ fetch' = fetch /\ now' = now
    BY <1>11 DEF Cap!AskElsewhere, Cap!MemoServes, Cap!Pending
  <2>2. fetch.answer # None /\ Covers(fetch.answer, fetch.at)
    BY <1>1, <2>1 DEF FetchTrue
  <2>3. QED BY <1>1, <1>3, <1>6, <2>1, <2>2
<1>12. CASE Cap!Settle
  <2>1. Cap!Pending /\ memo # None /\ now' = now /\ fetch # None
    BY <1>1, <1>12 DEF Cap!Settle, Cap!Pending
  <2>2. CASE fetch.answer = None
    <3>1. fetch' = [fetch EXCEPT !.answer = memo.counted]
      BY <1>12, <2>1, <2>2 DEF Cap!Settle
    <3>2. fetch'.at = fetch.at /\ fetch'.answer = memo.counted
      BY <1>3, <2>1, <3>1 DEF Cap!Fetch
    <3>3. Covers(memo.counted, fetch.at)
      BY <1>3, <2>1, MemoAnswers
    <3>4. memo.counted # None
      BY <1>7, <1>8, <2>1
    <3>5. QED BY <1>3, <1>6, <2>1, <3>2, <3>3, <3>4
  <2>3. CASE fetch.answer # None
    <3>1. fetch' = fetch
      BY <1>12, <2>3 DEF Cap!Settle
    <3>2. Covers(fetch.answer, fetch.at)
      BY <2>1, <2>3 DEF FetchTrue
    <3>3. QED BY <1>3, <1>6, <2>1, <2>3, <3>1, <3>2
  <2>4. QED BY <2>2, <2>3
<1>13. CASE Cap!ReadFails
  <2>1. fetch' = fetch /\ fetch.answer # None /\ now' = now
    BY <1>1, <1>13 DEF Cap!ReadFails
  <2>2. Covers(fetch.answer, fetch.at)
    BY <1>1, <2>1 DEF FetchTrue
  <2>3. QED BY <1>1, <1>3, <1>6, <2>1, <2>2
<1>14. \/ UNCHANGED <<fetch, memo>> /\ (now' = now \/ now' = now + 1)
       \/ Cap!Ask \/ Cap!AskElsewhere \/ Cap!Settle \/ Cap!ReadFails \/ fetch' = None
  BY DEF Cap!Next, Cap!vars, Cap!CheckDeclares, Cap!Decide, Cap!Open, Cap!SwapPolicy,
         Cap!StartElsewhere, Cap!Ingest,
         Cap!Answer, Cap!FetchFails, Cap!Tick
<1>15. QED BY <1>1, <1>5, <1>9, <1>10, <1>11, <1>12, <1>13, <1>14

LEMMA SnapshotStep ==
  ASSUME Cap!UsageAssumption, Cap!TypeOK, FetchTrue, SnapshotTrue, [Cap!Next]_(Cap!vars)
  PROVE  SnapshotTrue'
<1>1. now \in Nat
  BY DEF Cap!TypeOK
<1>2. \/ snapshot' = snapshot /\ (now' = now \/ now' = now + 1)
      \/ Cap!Answer
  BY DEF Cap!Next, Cap!vars, Cap!CheckDeclares, Cap!Decide, Cap!Open, Cap!SwapPolicy,
         Cap!StartElsewhere, Cap!Ingest,
         Cap!AskElsewhere, Cap!Ask, Cap!Settle, Cap!ReadFails, Cap!FetchFails, Cap!Tick
<1>3. ASSUME snapshot' # None
      PROVE  \E A, t : /\ t \in Nat /\ t <= now /\ Covers(A, t) /\ now <= now'
                       /\ snapshot'.answer = A /\ snapshot'.at = t
  <2>1. CASE Cap!Answer
    <3>1. fetch # None /\ fetch.answer # None /\ snapshot' = fetch /\ now' = now
      BY <2>1 DEF Cap!Answer
    <3>2. fetch.at \in Nat /\ fetch.at <= now /\ Covers(fetch.answer, fetch.at)
      BY <3>1 DEF FetchTrue, Cap!TypeOK, Cap!Fetch
    <3>3. QED BY <1>1, <3>1, <3>2
  <2>2. CASE snapshot' = snapshot /\ (now' = now \/ now' = now + 1)
    <3>1. snapshot.at \in Nat /\ snapshot.at <= now /\ Covers(snapshot.answer, snapshot.at)
      BY <1>3, <2>2 DEF SnapshotTrue, Cap!TypeOK, Cap!Fetch
    <3>2. QED BY <1>1, <2>2, <3>1
  <2>3. QED BY <1>2, <2>1, <2>2
<1>4. SUFFICES ASSUME snapshot' # None PROVE SnapshotTrue'
  BY DEF SnapshotTrue
<1>5. PICK A, t : /\ t \in Nat /\ t <= now /\ Covers(A, t) /\ now <= now'
                  /\ snapshot'.answer = A /\ snapshot'.at = t
  BY <1>3, <1>4
<1>6. Covers(A, t)'
  BY <1>5, AnswersAge
<1>7. Covers(snapshot.answer, snapshot.at)'
  BY <1>5, <1>6
<1>8. now' \in Nat
  BY <1>1, <1>2 DEF Cap!Answer
<1>9. snapshot'.at <= now'
  BY <1>1, <1>5, <1>8
<1>10. QED BY <1>7, <1>9 DEF SnapshotTrue

LEMMA CapHolds == ASSUME Cap!UsageAssumption PROVE Cap!Spec => []CapInv
<1>1. CapInv /\ [Cap!Next]_(Cap!vars) => CapInv'
  <2>1. SUFFICES ASSUME CapInv, [Cap!Next]_(Cap!vars) PROVE CapInv'
    OBVIOUS
  <2>2. Cap!TypeOK'
    BY <2>1, TypeStep DEF CapInv
  <2>3. Lagging' /\ Recorded'
    BY <2>1, PipelineStep DEF CapInv
  <2>4. MemoTrue'
    BY <2>1, <2>2, MemoStep DEF CapInv
  <2>5. FetchTrue'
    BY <2>1, <2>2, FetchStep DEF CapInv
  <2>6. SnapshotTrue'
    BY <2>1, SnapshotStep DEF CapInv
  <2>7. QED BY <2>2, <2>3, <2>4, <2>5, <2>6 DEF CapInv
<1>2. QED BY <1>1, CapInit, PTL DEF Cap!Spec

-----------------------------------------------------------------------------
(* What a decision reads.                                                  *)

\* The two terms overlap: whatever this process recorded in the window, and with a
\* snapshot what is elsewhere Margin before it, is in one of them.
LEMMA NoGap ==
  ASSUME Cap!UsageAssumption, CapInv, Cap!Usable
  PROVE  LET local == Cap!StartedSince(recorded, snapshot.at - Margin)
         IN  /\ Cap!InWindow(recorded) \subseteq snapshot.answer \cup local
             /\ \A e \in Cap!InWindow(Others) : started[e] <= snapshot.at - Margin => e \in snapshot.answer
<1>1. /\ snapshot # None /\ snapshot.at \in Nat /\ Covers(snapshot.answer, snapshot.at)
      /\ now \in Nat /\ recorded \subseteq Runs
      /\ \A e \in Everything : started[e] \in Nat \cup {None}
  BY DEF CapInv, SnapshotTrue, Cap!Usable, Cap!TypeOK, Cap!Fetch, Everything
<1>2. ASSUME NEW e \in Everything, started[e] # None, started[e] >= now - RunsWindow,
             started[e] <= snapshot.at - Margin
      PROVE  e \in snapshot.answer
  BY <1>1, <1>2, Delays DEF Covers, Dated
<1>3. ASSUME NEW e \in Cap!InWindow(recorded), e \notin snapshot.answer
      PROVE  e \in Cap!StartedSince(recorded, snapshot.at - Margin)
  <2>1. e \in Everything /\ e \in recorded /\ started[e] # None /\ started[e] >= now - RunsWindow
    BY <1>1, <1>3 DEF Cap!InWindow, Cap!StartedSince, Everything
  <2>2. ~(started[e] <= snapshot.at - Margin)
    BY <1>2, <1>3, <2>1
  <2>3. started[e] >= snapshot.at - Margin
    BY <1>1, <2>1, <2>2, Delays
  <2>4. QED BY <2>1, <2>3 DEF Cap!StartedSince
<1>4. ASSUME NEW e \in Cap!InWindow(Others), started[e] <= snapshot.at - Margin
      PROVE  e \in snapshot.answer
  BY <1>2, <1>4 DEF Cap!InWindow, Cap!StartedSince, Everything
<1>5. QED BY <1>3, <1>4

\* Two finite sets count, less one for a member that is left out, at least what is in
\* either of them without it.
LEMMA TwoTerms ==
  ASSUME NEW A, NEW B, NEW M, NEW own, NEW minus \in {0, 1},
         IsFiniteSet(A), IsFiniteSet(B), M \subseteq A \cup B,
         minus = 1 => own \in A \cup B /\ own \notin M
  PROVE  /\ Cardinality(A) \in Nat /\ Cardinality(B) \in Nat /\ Cardinality(M) \in Nat
         /\ Cardinality(M) <= Cardinality(A) + Cardinality(B) - minus
<1>1. /\ Cardinality(A) \in Nat /\ Cardinality(B) \in Nat
      /\ IsFiniteSet(A \cup B) /\ Cardinality(A \cup B) \in Nat
  BY FS_CardinalityType, FS_Union
<1>2. IsFiniteSet(A \cap B) /\ Cardinality(A \cap B) \in Nat
  BY FS_Subset, FS_CardinalityType
<1>3. Cardinality(A \cup B) <= Cardinality(A) + Cardinality(B)
  <2>1. Cardinality(A \cup B) = Cardinality(A) + Cardinality(B) - Cardinality(A \cap B)
    BY FS_Union
  <2>2. QED BY <1>1, <1>2, <2>1
<1>4. CASE minus = 0
  <2>1. IsFiniteSet(M) /\ Cardinality(M) <= Cardinality(A \cup B)
    BY <1>1, FS_Subset
  <2>2. Cardinality(M) \in Nat
    BY <2>1, FS_CardinalityType
  <2>3. QED BY <1>1, <1>3, <1>4, <2>1, <2>2
<1>5. CASE minus = 1
  <2>1. own \in A \cup B /\ M \subseteq (A \cup B) \ {own}
    BY <1>5
  <2>2. /\ IsFiniteSet((A \cup B) \ {own})
        /\ Cardinality((A \cup B) \ {own}) = Cardinality(A \cup B) - 1
    BY <1>1, <2>1, FS_RemoveElement
  <2>3. IsFiniteSet(M) /\ Cardinality(M) <= Cardinality((A \cup B) \ {own})
    BY <2>1, <2>2, FS_Subset
  <2>4. Cardinality(M) \in Nat
    BY <2>3, FS_CardinalityType
  <2>5. QED BY <1>1, <1>3, <1>5, <2>2, <2>3, <2>4
<1>6. QED BY <1>4, <1>5

LEMMA FiniteRuns ==
  ASSUME Cap!UsageAssumption, NEW E, E \subseteq Everything
  PROVE  IsFiniteSet(E)
BY Sizes, FS_Subset DEF Cap!UsageAssumption, Everything

LEMMA FlooredIsAbove ==
  ASSUME NEW n \in Int, NEW m \in Nat, m <= n
  PROVE  Cap!Floored(n) >= m
BY DEF Cap!Floored

LEMMA ReadsEnough ==
  ASSUME Cap!UsageAssumption, CapInv, NEW own
  PROVE  /\ Cap!Reading(own) \in Int /\ Cardinality(Cap!MustCount(own)) \in Nat
         /\ Cap!Reading(own) >= Cardinality(Cap!MustCount(own))
<1>1. /\ recorded \subseteq Runs /\ now \in Nat
      /\ \A r \in recorded : started[r] \in Nat /\ started[r] # None
  BY DEF CapInv, Cap!TypeOK, Recorded
<1>2. /\ Cap!OwnInvocation(own) \in {0, 1}
      /\ Cap!OwnInvocation(own) = 1 => own \in recorded /\ now - started[own] < RunsWindow
  BY DEF Cap!OwnInvocation
<1>3. Cap!OwnInvocation(own) = 1 => own \in Cap!InWindow(recorded)
  BY <1>1, <1>2, Delays DEF Cap!InWindow, Cap!StartedSince
<1>4. \A t : Cap!StartedSince(recorded, t) \subseteq Everything
  BY <1>1 DEF Cap!StartedSince, Everything
<1>5. CASE Cap!Usable
  <2>1. PICK A, B : A = snapshot.answer /\ B = Cap!StartedSince(recorded, snapshot.at - Margin)
    OBVIOUS
  <2>2. snapshot.answer \subseteq Everything
    BY <1>5 DEF CapInv, Cap!TypeOK, Cap!Usable, Cap!Fetch, Everything
  <2>3. IsFiniteSet(A) /\ IsFiniteSet(B)
    BY <1>4, <2>1, <2>2, FiniteRuns
  <2>4. Cap!InWindow(recorded) \subseteq A \cup B
    BY <1>5, <2>1, NoGap
  <2>5. Cap!MustCount(own) \subseteq A \cup B
    BY <1>5, <2>1, <2>4, NoGap DEF Cap!MustCount
  <2>6. Cap!OwnInvocation(own) = 1 => own \in A \cup B /\ own \notin Cap!MustCount(own)
    <3>1. own \in recorded => own \notin Cap!InWindow(Others)
      BY <1>1 DEF Cap!InWindow, Cap!StartedSince, Cap!UsageAssumption
    <3>2. QED BY <1>2, <1>3, <2>4, <3>1 DEF Cap!MustCount
  <2>7. /\ Cardinality(A) \in Nat /\ Cardinality(B) \in Nat /\ Cardinality(Cap!MustCount(own)) \in Nat
        /\ Cardinality(Cap!MustCount(own)) <= Cardinality(A) + Cardinality(B) - Cap!OwnInvocation(own)
    BY <1>2, <2>3, <2>5, <2>6, TwoTerms
  <2>8. Cap!Reading(own) = Cap!Floored(Cardinality(A) + Cardinality(B) - Cap!OwnInvocation(own))
    BY Sizes, <1>5, <2>1 DEF Cap!Reading, Cap!Combined, Cap!LocalSince
  <2>9. Cardinality(A) + Cardinality(B) - Cap!OwnInvocation(own) \in Int
    BY <1>2, <2>7
  <2>10. QED BY <2>7, <2>8, <2>9, FlooredIsAbove DEF Cap!Floored
<1>6. CASE ~Cap!Usable
  <2>1. PICK B : B = Cap!InWindow(recorded)
    OBVIOUS
  <2>2. IsFiniteSet(B) /\ IsFiniteSet({}) /\ Cardinality({}) = 0
    BY <1>4, <2>1, FiniteRuns, FS_EmptySet DEF Cap!InWindow
  <2>3. Cap!MustCount(own) = B \ {own}
    BY <1>6, <2>1 DEF Cap!MustCount
  <2>4. /\ Cardinality(B) \in Nat /\ Cardinality(Cap!MustCount(own)) \in Nat
        /\ Cardinality(Cap!MustCount(own)) <= Cardinality({}) + Cardinality(B) - Cap!OwnInvocation(own)
    BY <1>2, <1>3, <2>1, <2>2, <2>3, TwoTerms
  <2>5. Cap!Reading(own) = Cap!Floored(Cardinality(B) - Cap!OwnInvocation(own))
    BY Sizes, <1>6, <2>1 DEF Cap!Reading, Cap!LedgerOnly, Cap!LocalSince, Cap!InWindow
  <2>6. /\ Cardinality(B) - Cap!OwnInvocation(own) \in Int
        /\ Cardinality(Cap!MustCount(own)) <= Cardinality(B) - Cap!OwnInvocation(own)
    BY <1>2, <2>2, <2>4
  <2>7. QED BY <2>4, <2>5, <2>6, FlooredIsAbove DEF Cap!Floored
<1>7. QED BY <1>5, <1>6

-----------------------------------------------------------------------------
(* The composition: a step of it is one of the cap's or leaves it alone.   *)

LEMMA CapPart == UsageSpec => Cap!Spec
<1>1. [UsageNext]_usageVars => [Cap!Next]_(Cap!vars)
  BY DEF UsageNext, usageVars, capVars, Cap!vars
<1>2. UsageInit => Cap!Init
  BY DEF UsageInit
<1>3. QED BY <1>1, <1>2, PTL DEF UsageSpec, Cap!Spec

\* The count of a decision has no gap (usage_source.py, combined_namespace): with spans
\* late by up to Lag, a memo and a query that add to that, and a run that leaves its own
\* invocation out, no decision reads fewer runs than its process recorded in the window
\* and, by a snapshot, than started elsewhere Margin before it.
THEOREM NoRunIsMissed == UsageSpec => []NeverUndercounts
<1>1. CapInv => NeverUndercounts
  BY Sizes, ReadsEnough, PartsAssumption DEF NeverUndercounts, Cap!NeverUndercounts
<1>2. QED BY <1>1, CapPart, CapHolds, PartsAssumption, PTL

\* So the cap holds at the boundary of a run (agent_gate.py, _decide): no admission is
\* decided once the runs that had to be counted fill the cap.
THEOREM AdmissionKeepsTheCap == UsageSpec => AdmittedBelowCap
<1>1. ASSUME CapInv, [Cap!Next]_(Cap!vars), NEW r \in Runs,
             run[r] = "deciding", run'[r] = "admitted"
      PROVE  Cap!Cardinality(Cap!MustCount(None)) < RunsCap
  <2>1. run \in [Runs -> Cap!PCs]
    BY <1>1 DEF CapInv, Cap!TypeOK
  <2>2. Cap!Decide(r)
    BY <1>1, <2>1 DEF Cap!Next, Cap!vars, Cap!CheckDeclares, Cap!Decide, Cap!Open,
       Cap!SwapPolicy, Cap!StartElsewhere, Cap!Ingest, Cap!AskElsewhere, Cap!Ask,
       Cap!Settle, Cap!ReadFails, Cap!Answer, Cap!FetchFails, Cap!Tick, Cap!Goes
  <2>3. Cap!Reading(None) < RunsCap
    BY <1>1, <2>1, <2>2 DEF Cap!Decide, Cap!Goes
  <2>4. QED BY <1>1, <2>3, Sizes, ReadsEnough, PartsAssumption DEF Cap!UsageAssumption
<1>2. CapInv /\ [Cap!Next]_(Cap!vars) =>
        \A r \in Runs : run[r] = "deciding" /\ run'[r] = "admitted" =>
          Cap!Cardinality(Cap!MustCount(None)) < RunsCap
  BY <1>1
<1>3. QED BY <1>2, CapPart, CapHolds, PartsAssumption, PTL
             DEF Cap!Spec, AdmittedBelowCap, Cap!AdmittedBelowCap

-----------------------------------------------------------------------------
(* The boundary of a run and the engine that runs share.                   *)

Paths == UNION {Saves[i].usage : i \in Nat}
Guards == {Saves[i].guard : i \in Nat} \cup {FALSE}

RunRec ==
  [pc : {"idle", "preparing", "prepared", "adding", "admitting", "asking", "open",
         "guarding", "called"},
   policy : {"asks", "fetched", "done"}, fetched : Nat \cup {None},
   bans : {"asks", "banned", "done"}, usage : BOOLEAN,
   asked : SUBSET Paths, refreshed : SUBSET Paths, decided : Nat \cup {None},
   fresh : BOOLEAN, guarded : Guards, began : Nat, failed : BOOLEAN,
   regressed : BOOLEAN, swapped : BOOLEAN, excused : BOOLEAN]

\* The policy of a run that has had its refresh: its own, a newer one, or excused.
Current(p, e) == e >= p.began \/ p.failed \/ p.regressed

\* What is so of a run p, with the engine e installed, wherever it is.
Sees(p, e) ==
  /\ p.policy = "fetched" => p.fetched \in 1..Len(Saves)
  /\ p.policy = "fetched" /\ p.pc # "idle" => p.fetched >= p.began
  /\ p.pc # "idle" /\ p.policy = "done" => Current(p, e)
  /\ p.pc \notin {"idle", "preparing"} => p.policy = "done"
  /\ p.pc \in {"open", "asking", "guarding", "called"} /\ p.decided # None
       => Current(p, p.decided)
  \* what was asked for is on its way or in
  /\ p.pc \in {"preparing", "prepared", "adding", "admitting"} => p.usage \/ p.asked \subseteq p.refreshed
  /\ p.pc \in {"adding", "admitting"} => Saves[e].usage \subseteq p.asked \/ p.swapped
  /\ p.pc \in {"prepared", "admitting"} => ~p.usage
  /\ p.pc \in {"preparing", "prepared", "adding"} => p.decided = None
  /\ p.pc \in {"open", "asking"} /\ p.decided # None => p.fresh \/ p.excused
  \* the guards
  /\ p.pc = "guarding" => p.guarded = Saves[e].guard \/ p.swapped
  /\ p.pc = "called" =>
       p.decided # None /\ (p.guarded = Saves[p.decided].guard \/ p.excused)

BoundaryInv ==
  /\ \A r \in Runs : boundary[r].began <= served
  /\ served \in 1..Len(Saves) /\ engine \in 1..Len(Saves) /\ boundary \in [Runs -> RunRec]
  /\ \A r \in Runs : Sees(boundary[r], engine)

LEMMA Lengths ==
  /\ Boundary!Len(Saves) = Len(Saves) /\ Len(Saves) \in Nat \ {0}
  /\ None \notin Nat /\ None \notin {"allow", "ask", "deny"}
  /\ \A i \in 1..Len(Saves) :
       /\ Saves[i].admission \in {None, "allow", "ask", "deny"}
       /\ Saves[i].usage \subseteq Paths /\ Saves[i].guard \in Guards
<1>1. /\ Boundary!Len(Saves) = Len(Saves) /\ Len(Saves) \in Nat \ {0}
      /\ None \notin Nat /\ None \notin {"allow", "ask", "deny"}
      /\ \A i \in 1..Len(Saves) : Saves[i].admission \in {None, "allow", "ask", "deny"}
  BY PartsAssumption DEF Boundary!BoundaryAssumption
<1>2. \A i \in Nat : Saves[i].usage \subseteq Paths /\ Saves[i].guard \in Guards
  BY DEF Paths, Guards
<1>3. \A i \in 1..Len(Saves) : i \in Nat
  BY <1>1
<1>4. QED BY <1>1, <1>2, <1>3

LEMMA BoundaryInit == Boundary!Init => BoundaryInv
<1>1. SUFFICES ASSUME Boundary!Init PROVE BoundaryInv
  OBVIOUS
<1>2. Boundary!Idle \in RunRec
  BY DEF Boundary!Idle, RunRec, Guards
<1>3. Sees(Boundary!Idle, 1) /\ Boundary!Idle.began = 0
  BY DEF Boundary!Idle, Sees
<1>4. QED BY <1>1, <1>2, <1>3, Lengths DEF Boundary!Init, BoundaryInv

\* The new record of the one run that a step is of.
LEMMA OneRun ==
  ASSUME BoundaryInv, NEW r \in Runs, NEW q \in RunRec, Sees(q, engine), q.began <= served,
         boundary' = [boundary EXCEPT ![r] = q], UNCHANGED <<served, engine>>
  PROVE  BoundaryInv'
<1>1. boundary' \in [Runs -> RunRec]
  BY DEF BoundaryInv
<1>2. \A s \in Runs : boundary'[s] = boundary[s] \/ boundary'[s] = q
  BY DEF BoundaryInv
<1>3. \A s \in Runs : Sees(boundary'[s], engine)
  BY <1>2 DEF BoundaryInv
<1>4. \A s \in Runs : boundary'[s].began <= served
  BY <1>2 DEF BoundaryInv
<1>5. QED BY <1>1, <1>3, <1>4 DEF BoundaryInv

\* A run that ends, with what its refresh goes on with.
LEMMA Ended ==
  ASSUME BoundaryInv, NEW r \in Runs, Boundary!Ends(r), UNCHANGED <<served, engine>>
  PROVE  BoundaryInv'
<1>1. PICK p \in RunRec : p = boundary[r] /\ Sees(p, engine)
  BY DEF BoundaryInv
<1>2. PICK q : q = [Boundary!Idle EXCEPT !.policy = p.policy, !.fetched = p.fetched]
  OBVIOUS
<1>3. q \in RunRec
  BY <1>2 DEF Boundary!Idle, RunRec, Guards
<1>4. Sees(q, engine) /\ q.began = 0
  BY <1>1, <1>2 DEF Boundary!Idle, Sees
<1>5. boundary' = [boundary EXCEPT ![r] = q]
  BY <1>1, <1>2 DEF Boundary!Ends
<1>6. 0 <= served
  BY Lengths DEF BoundaryInv
<1>7. QED BY <1>3, <1>4, <1>5, <1>6, OneRun

LEMMA BeginStep ==
  ASSUME BoundaryInv, NEW r \in Runs, Boundary!Begin(r) PROVE BoundaryInv'
<1>1. PICK p \in RunRec : p = boundary[r] /\ Sees(p, engine) /\ p.pc = "idle" /\ p.policy = "done"
  BY DEF BoundaryInv, Boundary!Begin
<1>2. PICK q : q = [Boundary!Idle EXCEPT !.pc = "preparing", !.policy = "asks", !.bans = "asks",
                    !.asked = Saves[engine].usage, !.usage = Saves[engine].usage # {},
                    !.began = served]
  OBVIOUS
<1>3. Saves[engine].usage \in SUBSET Paths /\ served \in Nat /\ (Saves[engine].usage # {}) \in BOOLEAN
  BY Lengths DEF BoundaryInv
<1>4. q \in RunRec
  <2>1. PICK u \in BOOLEAN : u = (Saves[engine].usage # {})
    BY <1>3
  <2>2. q = [Boundary!Idle EXCEPT !.pc = "preparing", !.policy = "asks", !.bans = "asks",
               !.asked = Saves[engine].usage, !.usage = u, !.began = served]
    BY <1>2, <2>1, Zenon
  <2>3. PICK i \in RunRec : i = Boundary!Idle
    BY DEF Boundary!Idle, RunRec, Guards
  <2>4. PICK a \in SUBSET Paths, n \in Nat : a = Saves[engine].usage /\ n = served
    BY <1>3
  <2>5. q = [i EXCEPT !.pc = "preparing", !.policy = "asks", !.bans = "asks",
               !.asked = a, !.usage = u, !.began = n]
    BY <2>2, <2>3, <2>4
  <2>6. QED BY ONLY <2>5 DEF RunRec
<1>5. /\ q.pc = "preparing" /\ q.policy = "asks" /\ q.began = served
      /\ (q.usage \/ q.asked \subseteq q.refreshed) /\ q.decided = None
  <2>1. /\ q.pc = "preparing" /\ q.policy = "asks" /\ q.began = served /\ q.decided = None
        /\ q.asked = Saves[engine].usage /\ q.usage = (Saves[engine].usage # {})
    BY <1>2 DEF Boundary!Idle
  <2>2. CASE Saves[engine].usage = {}
    BY <2>1, <2>2
  <2>3. CASE Saves[engine].usage # {}
    <3>1. q.usage = TRUE BY <2>1, <2>3, Zenon
    <3>2. QED BY <2>1, <3>1
  <2>4. QED BY <2>2, <2>3
<1>6. Sees(q, engine)
  BY <1>5 DEF Sees
<1>7. boundary' = [boundary EXCEPT ![r] = q]
  BY <1>1, <1>2 DEF Boundary!Begin
<1>8. served <= served
  BY <1>3
<1>9. QED BY <1>4, <1>5, <1>6, <1>7, <1>8, OneRun DEF Boundary!Begin

\* The steps of the refreshes that change one run.
LEMMA RefreshStep ==
  ASSUME BoundaryInv, NEW r \in Runs,
         \/ Boundary!Fetch(r) \/ Boundary!FetchFails(r)
         \/ Boundary!FetchBans(r) \/ Boundary!RefreshUsage(r)
  PROVE  BoundaryInv'
<1>1. PICK p \in RunRec : p = boundary[r] /\ Sees(p, engine) /\ p.began <= served
  BY DEF BoundaryInv
<1>2. /\ UNCHANGED <<served, engine>> /\ boundary \in [Runs -> RunRec]
      /\ served \in 1..Len(Saves) /\ served \in Nat
  BY Lengths DEF BoundaryInv, Boundary!Fetch, Boundary!FetchFails, Boundary!FetchBans, Boundary!RefreshUsage
<1>3. CASE Boundary!Fetch(r)
  <2>1. PICK q : q = [p EXCEPT !.policy = "fetched", !.fetched = served] OBVIOUS
  <2>2. q \in RunRec BY <1>2, <2>1 DEF RunRec
  <2>3. p.policy = "asks" BY <1>1, <1>3 DEF Boundary!Fetch
  <2>4. Sees(q, engine) BY <1>1, <1>2, <2>1, <2>3 DEF Sees, RunRec, Current
  <2>5. boundary' = [boundary EXCEPT ![r] = q] BY <1>1, <1>2, <1>3, <2>1 DEF Boundary!Fetch
  <2>6. q.began = p.began BY <2>1 DEF RunRec
  <2>7. QED BY <1>1, <1>2, <2>2, <2>4, <2>5, <2>6, OneRun
<1>4. CASE Boundary!FetchFails(r)
  <2>1. PICK q : q = [p EXCEPT !.policy = "done", !.failed = TRUE] OBVIOUS
  <2>2. q \in RunRec BY <2>1 DEF RunRec
  <2>3. p.policy = "asks" BY <1>1, <1>4 DEF Boundary!FetchFails
  <2>4. Sees(q, engine) BY <1>1, <1>2, <2>1, <2>3 DEF Sees, RunRec, Current
  <2>5. boundary' = [boundary EXCEPT ![r] = q] BY <1>1, <1>2, <1>4, <2>1 DEF Boundary!FetchFails
  <2>6. q.began = p.began BY <2>1 DEF RunRec
  <2>7. QED BY <1>1, <1>2, <2>2, <2>4, <2>5, <2>6, OneRun
<1>5. CASE Boundary!FetchBans(r)
  <2>1. PICK q : q = [p EXCEPT !.bans = IF banned THEN "banned" ELSE "done"] OBVIOUS
  <2>2. q \in RunRec BY <2>1 DEF RunRec
  <2>3. Sees(q, engine) BY <1>1, <2>1 DEF Sees, RunRec, Current
  <2>4. boundary' = [boundary EXCEPT ![r] = q] BY <1>1, <1>2, <1>5, <2>1 DEF Boundary!FetchBans
  <2>5. q.began = p.began BY <2>1 DEF RunRec
  <2>6. QED BY <1>1, <1>2, <2>2, <2>3, <2>4, <2>5, OneRun
<1>6. CASE Boundary!RefreshUsage(r)
  <2>1. PICK q : q = [p EXCEPT !.usage = FALSE, !.refreshed = @ \cup p.asked] OBVIOUS
  <2>2. q \in RunRec BY <2>1 DEF RunRec
  <2>3. Sees(q, engine) BY <1>1, <2>1 DEF Sees, RunRec, Current
  <2>4. boundary' = [boundary EXCEPT ![r] = q] BY <1>1, <1>2, <1>6, <2>1 DEF Boundary!RefreshUsage
  <2>5. q.began = p.began BY <2>1 DEF RunRec
  <2>6. QED BY <1>1, <1>2, <2>2, <2>3, <2>4, <2>5, OneRun
<1>7. QED BY <1>3, <1>4, <1>5, <1>6

\* An engine is installed: every run notes that it changed, or went back.
LEMMA InstallStep ==
  ASSUME BoundaryInv, NEW r \in Runs, Boundary!Install(r) PROVE BoundaryInv'
<1>1. /\ boundary \in [Runs -> RunRec] /\ served' = served
      /\ boundary[r].policy = "fetched" /\ engine' = boundary[r].fetched
      /\ engine \in Nat /\ engine' \in 1..Len(Saves) /\ engine' \in Nat
  <2>1. boundary[r].policy = "fetched" /\ engine' = boundary[r].fetched /\ served' = served
    BY DEF Boundary!Install
  <2>2. boundary \in [Runs -> RunRec] /\ engine \in 1..Len(Saves) /\ Sees(boundary[r], engine)
    BY DEF BoundaryInv
  <2>3. engine' \in 1..Len(Saves)
    BY <2>1, <2>2 DEF Sees
  <2>4. QED BY <2>1, <2>2, <2>3, Lengths
<1>2. PICK u, v : u \in BOOLEAN /\ v \in BOOLEAN /\ u = (engine' # engine) /\ v = (engine' < engine)
  <2>1. (engine' # engine) \in BOOLEAN /\ (engine' < engine) \in BOOLEAN
    OBVIOUS
  <2>2. QED BY <2>1, Zenon
<1>3. ASSUME NEW s \in Runs
      PROVE  boundary'[s] \in RunRec /\ Sees(boundary'[s], engine') /\ boundary'[s].began <= served'
  <2>1. PICK p \in RunRec : p = boundary[s] /\ Sees(p, engine) /\ p.began <= served
    BY <1>1 DEF BoundaryInv
  <2>2. PICK x \in BOOLEAN, y \in BOOLEAN : x = (p.swapped \/ u) /\ y = (p.regressed \/ v)
    OBVIOUS
  <2>3. PICK q : q = [p EXCEPT !.policy = IF s = r THEN "done" ELSE @,
                               !.fetched = IF s = r THEN None ELSE @,
                               !.swapped = x, !.regressed = y]
    OBVIOUS
  <2>4. boundary'[s] = q
    <3>1. x = (p.swapped \/ engine' # engine) /\ y = (p.regressed \/ engine' < engine)
      BY <1>2, <2>2, Zenon
    <3>2. boundary'[s] = [boundary[s] EXCEPT !.policy = IF s = r THEN "done" ELSE @,
                            !.fetched = IF s = r THEN None ELSE @,
                            !.swapped = @ \/ engine' # engine,
                            !.regressed = @ \/ engine' < engine]
      BY DEF Boundary!Install
    <3>3. QED BY <2>1, <2>3, <3>1, <3>2, Zenon
  <2>5. q \in RunRec /\ q.began = p.began
    BY <2>3 DEF RunRec
  <2>6. /\ q.swapped = x /\ q.regressed = y /\ q.pc = p.pc /\ q.failed = p.failed
        /\ q.decided = p.decided /\ q.usage = p.usage /\ q.asked = p.asked
        /\ q.refreshed = p.refreshed /\ q.fresh = p.fresh /\ q.excused = p.excused
        /\ q.guarded = p.guarded
        /\ s # r => q.policy = p.policy /\ q.fetched = p.fetched
        /\ s = r => q.policy = "done"
    BY <2>3 DEF RunRec
  <2>7. /\ p.began \in Nat /\ p.fetched \in Nat \cup {None}
        /\ p.regressed => y = TRUE
        /\ p.swapped => x = TRUE
    BY <2>2 DEF RunRec
  <2>8. (engine' # engine => x = TRUE) /\ (engine' < engine => y = TRUE)
    BY <1>2, <2>2
  <2>9. Current(p, engine) => Current(q, engine')
    <3>1. p.regressed \/ p.failed => q.regressed \/ q.failed
      BY <2>6, <2>7
    <3>2. engine >= p.began => engine' >= q.began \/ q.regressed
      BY <1>1, <2>5, <2>6, <2>7, <2>8
    <3>3. QED BY <3>1, <3>2 DEF Current
  <2>10. Current(p, p.decided) => Current(q, q.decided)
    BY <2>5, <2>6, <2>7 DEF Current
  <2>11. CASE s = r
    <3>1. p.policy = "fetched" /\ p.pc \in {"idle", "preparing"} /\ q.policy = "done"
      BY <1>1, <2>1, <2>6, <2>11 DEF Sees
    <3>2. p.pc # "idle" => Current(q, engine')
      BY <1>1, <2>1, <2>5, <2>11, <3>1 DEF Sees, Current
    <3>3. Sees(q, engine')
      BY <2>1, <2>6, <3>1, <3>2 DEF Sees
    <3>4. QED BY <1>1, <2>1, <2>4, <2>5, <3>3
  <2>12. CASE s # r
    <3>1. Saves[engine].usage \subseteq p.asked \/ p.swapped
             => Saves[engine'].usage \subseteq q.asked \/ q.swapped
      BY <2>6, <2>7, <2>8
    <3>2. p.guarded = Saves[engine].guard \/ p.swapped
             => q.guarded = Saves[engine'].guard \/ q.swapped
      BY <2>6, <2>7, <2>8
    <3>3. Sees(q, engine')
      BY <2>1, <2>5, <2>6, <2>9, <2>10, <2>12, <3>1, <3>2 DEF Sees
    <3>4. QED BY <1>1, <2>1, <2>4, <2>5, <3>3
  <2>13. QED BY <2>11, <2>12
<1>4. boundary' \in [Runs -> RunRec]
  <2>1. boundary' = [s \in Runs |-> boundary'[s]]
    BY DEF Boundary!Install
  <2>2. QED BY <1>3, <2>1
<1>5. QED BY <1>1, <1>3, <1>4 DEF BoundaryInv

\* The steps of the run, up to its admission.
LEMMA AdmissionStep ==
  ASSUME BoundaryInv, NEW r \in Runs,
         \/ Boundary!Enforce(r) \/ Boundary!AddUsage(r)
         \/ Boundary!Admission(r) \/ Boundary!Approved(r)
  PROVE  BoundaryInv'
<1>1. PICK p \in RunRec : p = boundary[r] /\ Sees(p, engine) /\ p.began <= served
  BY DEF BoundaryInv
<1>2. /\ UNCHANGED <<served, engine>> /\ boundary \in [Runs -> RunRec]
      /\ engine \in 1..Len(Saves)
  BY DEF BoundaryInv, Boundary!Enforce, Boundary!AddUsage, Boundary!Admission, Boundary!Approved
<1>3. ASSUME NEW pc \in {"prepared", "open", "admitting"}, Boundary!Goes(r, pc),
             \/ pc = "prepared" /\ p.pc = "preparing" /\ p.policy = "done" /\ ~p.usage
             \/ pc = "admitting" /\ p.pc = "adding" /\ ~p.usage
             \/ pc = "open" /\ p.pc = "asking"
             \/ pc = "open" /\ p.pc = "adding" /\ p.decided = None
      PROVE  BoundaryInv'
  <2>1. PICK q : q = [p EXCEPT !.pc = pc]
    OBVIOUS
  <2>2. q \in RunRec /\ q.began = p.began
    BY <2>1 DEF RunRec
  <2>3. Sees(q, engine)
    BY <1>1, <1>3, <2>1 DEF Sees, RunRec, Current
  <2>4. boundary' = [boundary EXCEPT ![r] = q]
    BY <1>1, <1>2, <1>3, <2>1 DEF Boundary!Goes
  <2>5. QED BY <1>1, <1>2, <2>2, <2>3, <2>4, OneRun
<1>4. CASE Boundary!Enforce(r)
  BY <1>1, <1>2, <1>3, <1>4, Ended DEF Boundary!Enforce
<1>5. CASE Boundary!AddUsage(r)
  <2>1. PICK u : u \in BOOLEAN /\ u = ~(Saves[engine].usage \subseteq p.asked)
    <3>1. (~(Saves[engine].usage \subseteq p.asked)) \in BOOLEAN
      OBVIOUS
    <3>2. QED BY <3>1, Zenon
  <2>2. PICK a \in SUBSET Paths : a = Saves[engine].usage
    BY <1>2, Lengths
  <2>3. PICK q : q = [p EXCEPT !.pc = "adding", !.swapped = FALSE, !.asked = a, !.usage = u]
    OBVIOUS
  <2>4. q \in RunRec /\ q.began = p.began
    BY <2>1, <2>3 DEF RunRec
  <2>5. p.pc = "prepared"
    BY <1>1, <1>5 DEF Boundary!AddUsage
  <2>6. /\ q.pc = "adding" /\ q.policy = p.policy /\ q.fetched = p.fetched /\ q.asked = a
        /\ q.usage = u /\ q.refreshed = p.refreshed /\ q.failed = p.failed
        /\ q.regressed = p.regressed /\ q.decided = p.decided
    BY <2>3 DEF RunRec
  <2>7. ~u => a \subseteq p.asked
    BY <2>1, <2>2
  <2>8. p.asked \subseteq p.refreshed /\ p.policy = "done" /\ Current(p, engine) /\ p.decided = None
    BY <1>1, <2>5 DEF Sees
  <2>9. q.usage \/ q.asked \subseteq q.refreshed
    BY <2>6, <2>7, <2>8
  <2>10. Sees(q, engine)
    BY <2>2, <2>4, <2>6, <2>8, <2>9 DEF Sees, Current
  <2>11. boundary' = [boundary EXCEPT ![r] = q]
    <3>1. boundary' = [boundary EXCEPT ![r].pc = "adding", ![r].swapped = FALSE,
             ![r].asked = Saves[engine].usage, ![r].usage = ~(Saves[engine].usage \subseteq p.asked)]
      BY <1>1, <1>5 DEF Boundary!AddUsage
    <3>2. boundary' = [boundary EXCEPT ![r].pc = "adding", ![r].swapped = FALSE,
                                       ![r].asked = a, ![r].usage = u]
      BY <2>1, <2>2, <3>1, Zenon
    <3>3. QED BY ONLY <1>1, <1>2, <2>3, <3>2
  <2>12. QED BY <1>1, <1>2, <2>4, <2>10, <2>11, OneRun
<1>6. CASE Boundary!Admission(r)
  <2>1. p.pc = "adding" /\ ~p.usage
    BY <1>1, <1>6 DEF Boundary!Admission
  <2>2. p.decided = None
    BY <1>1, <2>1 DEF Sees
  <2>3. QED BY <1>3, <1>6, <2>1, <2>2 DEF Boundary!Admission
<1>7. CASE Boundary!Approved(r)
  BY <1>1, <1>3, <1>7 DEF Boundary!Approved
<1>8. QED BY <1>4, <1>5, <1>6, <1>7

\* A decision, with the engine of now.
LEMMA DecisionStep ==
  ASSUME BoundaryInv, NEW r \in Runs,
         \/ Boundary!Admit(r) \/ Boundary!Call(r) \/ Boundary!DecideCall(r)
  PROVE  BoundaryInv'
<1>1. PICK p \in RunRec : p = boundary[r] /\ Sees(p, engine) /\ p.began <= served
  BY DEF BoundaryInv
<1>2. /\ UNCHANGED <<served, engine>> /\ boundary \in [Runs -> RunRec]
      /\ engine \in 1..Len(Saves) /\ engine \in Nat /\ engine # None
      /\ Saves[engine].admission \in {None, "allow", "ask", "deny"} /\ Saves[engine].guard \in Guards
  <2>1. UNCHANGED <<served, engine>>
    BY DEF Boundary!Admit, Boundary!Call, Boundary!DecideCall
  <2>2. engine \in 1..Len(Saves) /\ boundary \in [Runs -> RunRec]
    BY DEF BoundaryInv
  <2>3. QED BY <2>1, <2>2, Lengths
<1>3. ASSUME NEW pc \in {"open", "asking", "called"}, NEW fresh \in BOOLEAN,
             Boundary!Decides(r, pc, fresh), p.pc \in {"admitting", "guarding"},
             pc # "called" => fresh \/ p.swapped,
             pc = "called" => p.guarded = Saves[engine].guard \/ p.swapped
      PROVE  BoundaryInv'
  <2>1. PICK q : q = [p EXCEPT !.pc = pc, !.decided = engine, !.fresh = fresh,
                               !.excused = p.swapped, !.asked = {}, !.refreshed = {}]
    OBVIOUS
  <2>2. q \in RunRec /\ q.began = p.began
    BY <1>2, <2>1 DEF RunRec
  <2>3. p.policy = "done" /\ Current(p, engine)
    BY <1>1, <1>3 DEF Sees
  <2>4. /\ q.pc = pc /\ q.decided = engine /\ q.fresh = fresh /\ q.excused = p.swapped
        /\ q.policy = p.policy /\ q.failed = p.failed /\ q.regressed = p.regressed
        /\ q.guarded = p.guarded
    BY <2>1 DEF RunRec
  <2>5. Current(q, engine)
    BY <2>2, <2>3, <2>4 DEF Current
  <2>6. Sees(q, engine)
    BY <1>2, <1>3, <2>3, <2>4, <2>5 DEF Sees
  <2>7. boundary' = [boundary EXCEPT ![r] = q]
    BY <1>1, <1>2, <1>3, <2>1 DEF Boundary!Decides
  <2>8. QED BY <1>1, <1>2, <2>2, <2>6, <2>7, OneRun
<1>4. CASE Boundary!Admit(r)
  <2>1. PICK fresh : fresh \in BOOLEAN /\ fresh = (Saves[engine].usage \subseteq p.refreshed)
    <3>1. (Saves[engine].usage \subseteq p.refreshed) \in BOOLEAN
      OBVIOUS
    <3>2. QED BY <3>1, Zenon
  <2>2. p.pc = "admitting"
    BY <1>1, <1>4 DEF Boundary!Admit
  <2>3. Saves[engine].usage \subseteq p.refreshed \/ p.swapped
    BY <1>1, <2>2 DEF Sees
  <2>4. fresh \/ p.swapped
    BY <2>1, <2>3, Zenon
  <2>5. \/ Boundary!Decides(r, "open", fresh)
        \/ Boundary!Decides(r, "asking", fresh)
        \/ Boundary!Ends(r)
    <3>1. CASE Saves[engine].admission = "allow"
      BY <1>1, <1>4, <2>1, <3>1 DEF Boundary!Admit
    <3>2. CASE Saves[engine].admission = "ask"
      BY <1>1, <1>4, <2>1, <3>2 DEF Boundary!Admit
    <3>3. CASE Saves[engine].admission \in {"deny", None}
      BY <1>4, <3>3, Lengths DEF Boundary!Admit
    <3>4. QED BY <1>2, <3>1, <3>2, <3>3
  <2>6. QED BY <1>2, <1>3, <2>1, <2>2, <2>4, <2>5, Ended
<1>5. CASE Boundary!Call(r)
  <2>1. PICK g \in Guards : g = Saves[engine].guard
    BY <1>2
  <2>2. PICK q : q = [p EXCEPT !.pc = "guarding", !.swapped = FALSE, !.guarded = g]
    OBVIOUS
  <2>3. q \in RunRec /\ q.began = p.began
    BY <2>1, <2>2 DEF RunRec
  <2>4. p.pc \in {"open", "called"}
    BY <1>1, <1>5 DEF Boundary!Call
  <2>5. Sees(q, engine)
    BY <1>1, <2>1, <2>2, <2>4 DEF Sees, RunRec, Current
  <2>6. boundary' = [boundary EXCEPT ![r] = q]
    BY <1>1, <1>2, <1>5, <2>1, <2>2 DEF Boundary!Call
  <2>7. QED BY <1>1, <1>2, <2>3, <2>5, <2>6, OneRun
<1>6. CASE Boundary!DecideCall(r)
  <2>1. p.pc = "guarding" /\ Boundary!Decides(r, "called", TRUE)
    BY <1>1, <1>6 DEF Boundary!DecideCall
  <2>2. p.guarded = Saves[engine].guard \/ p.swapped
    BY <1>1, <2>1 DEF Sees
  <2>3. QED BY <1>3, <2>1, <2>2
<1>7. QED BY <1>4, <1>5, <1>6

LEMMA BoundaryHolds == Boundary!Spec => []BoundaryInv
<1>1. ASSUME BoundaryInv, Boundary!Next PROVE BoundaryInv'
  <2>1. CASE Boundary!Save
    <3>1. /\ served' = served + 1 /\ served < Len(Saves) /\ UNCHANGED <<engine, boundary>>
      BY <2>1, Lengths DEF Boundary!Save
    <3>2. served \in Nat /\ served' \in 1..Len(Saves) /\ served <= served'
      BY <1>1, <3>1, Lengths DEF BoundaryInv
    <3>3. \A r \in Runs : boundary[r].began \in Nat /\ boundary[r].began <= served
      BY <1>1 DEF BoundaryInv, RunRec
    <3>4. \A r \in Runs : boundary[r].began <= served'
      BY <3>2, <3>3
    <3>5. QED BY <1>1, <3>1, <3>2, <3>4 DEF BoundaryInv
  <2>2. CASE Boundary!BanOrLift
    BY <1>1, <2>2 DEF Boundary!BanOrLift, BoundaryInv
  <2>3. ASSUME NEW r \in Runs, Boundary!End(r) PROVE BoundaryInv'
    BY <1>1, <2>3, Ended DEF Boundary!End
  <2>4. QED BY <1>1, <2>1, <2>2, <2>3, BeginStep, RefreshStep, InstallStep, AdmissionStep,
               DecisionStep DEF Boundary!Next
<1>2. BoundaryInv /\ UNCHANGED Boundary!vars => BoundaryInv'
  BY DEF BoundaryInv, Boundary!vars
<1>3. QED BY <1>1, <1>2, BoundaryInit, PTL DEF Boundary!Spec

LEMMA BoundaryPart == UsageSpec => Boundary!Spec
<1>1. [UsageNext]_usageVars => [Boundary!Next]_(Boundary!vars)
  BY DEF UsageNext, usageVars, boundaryVars, Boundary!vars
<1>2. UsageInit => Boundary!Init
  BY DEF UsageInit
<1>3. QED BY <1>1, <1>2, PTL DEF UsageSpec, Boundary!Spec

\* A run is decided by its policy (adapters/_common.py; agent_gate.py; guards/runner.py):
\* by one no older than was served when it began, with the usage that policy reads, and
\* its calls under the guards of the policy that decides them, however many runs install
\* engines meanwhile; what excuses a run is named in the property.
THEOREM RunsSeeTheirs == UsageSpec => []RunsSeeTheirPolicy
<1>1. ASSUME BoundaryInv, NEW r \in Runs
      PROVE  LET p == boundary[r]
             IN  /\ p.pc \in {"open", "asking", "guarding", "called"} /\ p.decided # None =>
                      p.decided >= p.began \/ p.failed \/ p.regressed
                 /\ p.pc \in {"open", "asking"} /\ p.decided # None => p.fresh \/ p.excused
                 /\ p.pc = "called" => p.guarded = Saves[p.decided].guard \/ p.excused
  BY <1>1 DEF BoundaryInv, Sees, Current
<1>2. BoundaryInv => RunsSeeTheirPolicy
  BY <1>1 DEF RunsSeeTheirPolicy, Boundary!RunsSeeTheirPolicy, Boundary!CapsHaveSnapshots,
     Boundary!GuardsOfThePolicy, Boundary!Decided
<1>3. QED BY <1>2, BoundaryPart, BoundaryHolds, PTL

-----------------------------------------------------------------------------
(* How events leave the process.                                           *)

SenderRec ==
  [built : BOOLEAN, queue : Seq(Nat), batch : SUBSET Nat, closing : BOOLEAN,
   stopped : BOOLEAN, ended : BOOLEAN, shut : BOOLEAN, overdue : BOOLEAN]

SpanTypes ==
  /\ registry \in Senders \cup {None}
  /\ sender \in [Senders -> SenderRec]
  /\ thread \in [Threads -> [pc : {"idle", "building", "offering", "appending"},
                             of : Senders \cup {None}, event : Nat \cup {None}]]
  /\ shutdown \in [Shutdowns -> [pc : {"idle", "closing", "returned"},
                                 senders : SUBSET Senders, before : SUBSET Nat]]
  /\ emitted \in Nat /\ exiting \in BOOLEAN

\* A thread that has an event in hand.
InHand(t) == thread[t].pc \in {"offering", "appending"}

\* What is held is a sender that was built, and the registry's takes events.
Held ==
  /\ \A t \in Threads : thread[t].of # None => sender[thread[t].of].built
  /\ \A t \in Threads : InHand(t) => thread[t].of # None
  /\ \A k \in Shutdowns : \A s \in shutdown[k].senders : sender[s].built /\ s # registry
  /\ registry # None => sender[registry].built /\ ~sender[registry].closing

\* The life of a sender.
Lives ==
  \A s \in Senders :
    /\ ~sender[s].built => Spans!Queued(s) = {}
    /\ sender[s].closing \/ sender[s].stopped => sender[s].built
    /\ sender[s].stopped => sender[s].closing \/ exiting
    /\ sender[s].shut => sender[s].stopped /\ (sender[s].overdue \/ sender[s].ended)
    /\ sender[s].ended => sender[s].stopped /\ Spans!Queued(s) \subseteq late
    /\ Spans!Queued(s) \cap late # {} => sender[s].stopped

\* An event is in one place: in hand, or in one sender.
Once ==
  /\ late \subseteq 1..emitted
  /\ \A s \in Senders : Spans!Queued(s) \subseteq 1..emitted
  /\ \A t \in Threads : InHand(t) =>
       /\ thread[t].event \in 1..emitted /\ thread[t].event \notin late
       /\ \A s \in Senders : thread[t].event \notin Spans!Queued(s)
       /\ \A u \in Threads : InHand(u) /\ u # t => thread[u].event # thread[t].event
  /\ \A s, u \in Senders : s # u => Spans!Queued(s) \cap Spans!Queued(u) = {}

\* What a shutdown waits for is in the senders it shuts down.
Awaited ==
  \A k \in Shutdowns :
    /\ shutdown[k].before \subseteq 1..emitted /\ shutdown[k].before \cap late = {}
    /\ \A t \in Threads : InHand(t) => thread[t].event \notin shutdown[k].before
    /\ \A s \in Senders \ shutdown[k].senders : shutdown[k].before \cap Spans!Queued(s) = {}
    /\ shutdown[k].pc = "returned" => \A s \in shutdown[k].senders : sender[s].shut

SpanInv == SpanTypes /\ Held /\ Lives /\ Once /\ Awaited

LEMMA SpanInit == ASSUME Spans!SenderAssumption PROVE Spans!Init => SpanInv
<1>. SUFFICES ASSUME Spans!Init PROVE SpanInv OBVIOUS
<1>. USE DEF Spans!Init, Spans!SenderAssumption
<1>1. Spans!NewSender \in SenderRec BY EmptySeq DEF Spans!NewSender, SenderRec
<1>2. SpanTypes BY <1>1 DEF SpanTypes, Spans!Idle, Spans!NotCalled
<1>3. \A s \in Senders : Spans!Queued(s) = {}
  BY DEF Spans!Queued, Spans!NewSender, Spans!ToSet
<1>4. Held BY DEF Held, InHand, Spans!Idle, Spans!NotCalled
<1>5. Lives BY <1>3 DEF Lives, Spans!NewSender
<1>6. Once BY <1>3 DEF Once, InHand, Spans!Idle
<1>7. Awaited BY <1>3 DEF Awaited, InHand, Spans!Idle, Spans!NotCalled
<1>8. QED BY <1>2, <1>4, <1>5, <1>6, <1>7 DEF SpanInv

-----------------------------------------------------------------------------
(* What the steps of a thread keep.                                        *)

LEMMA GetSenderStep ==
  ASSUME Spans!SenderAssumption, SpanInv, NEW t \in Threads, Spans!GetSender(t)
  PROVE  SpanInv'
<1>. USE DEF SpanInv, Spans!SenderAssumption
<1>1. /\ thread' \in [Threads -> [pc : {"idle", "building", "offering", "appending"},
                                  of : Senders \cup {None}, event : Nat \cup {None}]]
      /\ \A u \in Threads \ {t} : thread'[u] = thread[u]
      /\ thread'[t].pc \in {"idle", "building"} /\ thread'[t].of \in {registry, None}
      /\ UNCHANGED <<registry, sender, shutdown, emitted, late, exiting>>
  BY DEF Spans!GetSender, Spans!Idle, SpanTypes
<1>2. \A s \in Senders : Spans!Queued(s)' = Spans!Queued(s) BY <1>1 DEF Spans!Queued
<1>3. \A u \in Threads : InHand(u)' => InHand(u) /\ u # t /\ thread'[u] = thread[u]
  BY <1>1 DEF InHand
<1>4. SpanTypes' BY <1>1 DEF SpanTypes
<1>5. Held' BY <1>1, <1>3 DEF Held
<1>6. Lives' BY <1>1, <1>2 DEF Lives
<1>7. Once' BY <1>1, <1>2, <1>3 DEF Once
<1>8. Awaited' BY <1>1, <1>2, <1>3 DEF Awaited
<1>9. QED BY <1>4, <1>5, <1>6, <1>7, <1>8

LEMMA CreateSenderStep ==
  ASSUME Spans!SenderAssumption, SpanInv, NEW t \in Threads, Spans!CreateSender(t)
  PROVE  SpanInv'
<1>. USE DEF SpanInv, Spans!SenderAssumption
<1>1. registry' \in Senders /\ ~sender[registry'].built
  BY DEF Spans!CreateSender, Spans!Unbuilt
<1>2. PICK s \in Senders : s = registry' BY <1>1
<1>3. /\ thread' \in [Threads -> [pc : {"idle", "building", "offering", "appending"},
                                  of : Senders \cup {None}, event : Nat \cup {None}]]
      /\ \A u \in Threads \ {t} : thread'[u] = thread[u]
      /\ thread'[t].pc = "idle" /\ thread'[t].of = s
      /\ UNCHANGED <<shutdown, emitted, late, exiting>>
  BY <1>2 DEF Spans!CreateSender, Spans!Idle, SpanTypes
<1>4. sender' = [sender EXCEPT ![s].built = TRUE] BY <1>2 DEF Spans!CreateSender
<1>19. PICK z \in SenderRec : z = sender[s] BY DEF SpanTypes
<1>5. PICK y : y = [z EXCEPT !.built = TRUE] OBVIOUS
<1>16. y \in SenderRec BY <1>5 DEF SenderRec
<1>17. sender' = [sender EXCEPT ![s] = y] BY <1>4, <1>5, <1>19
<1>18. /\ sender' \in [Senders -> SenderRec]
       /\ \A u \in Senders \ {s} : sender'[u] = sender[u]
       /\ sender'[s] = y
  BY <1>16, <1>17 DEF SpanTypes
<1>6. sender'[s].built /\ \A u \in Senders :
        /\ sender'[u].queue = sender[u].queue /\ sender'[u].batch = sender[u].batch
        /\ sender'[u].closing = sender[u].closing /\ sender'[u].stopped = sender[u].stopped
        /\ sender'[u].ended = sender[u].ended /\ sender'[u].shut = sender[u].shut
        /\ sender'[u].overdue = sender[u].overdue
        /\ sender[u].built => sender'[u].built
        /\ (u # s /\ sender'[u].built) => sender[u].built
  BY <1>5, <1>18, <1>19 DEF SpanTypes, SenderRec
<1>7. \A u \in Senders : Spans!Queued(u)' = Spans!Queued(u) BY <1>6 DEF Spans!Queued
<1>8. \A u \in Threads : InHand(u)' => InHand(u) /\ u # t /\ thread'[u] = thread[u]
  BY <1>3 DEF InHand
<1>9. ~sender[s].closing /\ ~sender[s].built BY <1>1, <1>2 DEF Lives
<1>10. SpanTypes' BY <1>2, <1>3, <1>18 DEF SpanTypes
<1>11. Held'
  <2>1. \A u \in Threads : thread'[u].of # None => sender'[thread'[u].of].built
    BY <1>3, <1>6 DEF Held, SpanTypes
  <2>2. \A u \in Threads : InHand(u)' => thread'[u].of # None BY <1>8 DEF Held
  <2>3. \A k \in Shutdowns : \A u \in shutdown'[k].senders : sender'[u].built /\ u # registry'
    BY <1>2, <1>3, <1>6, <1>9 DEF Held, SpanTypes
  <2>4. QED BY <1>2, <1>6, <1>9, <2>1, <2>2, <2>3 DEF Held
<1>12. Lives' BY <1>3, <1>6, <1>7, <1>9 DEF Lives
<1>13. Once' BY <1>3, <1>7, <1>8 DEF Once
<1>14. Awaited' BY <1>3, <1>6, <1>7, <1>8 DEF Awaited, SpanTypes
<1>15. QED BY <1>10, <1>11, <1>12, <1>13, <1>14

LEMMA EmitStep ==
  ASSUME Spans!SenderAssumption, SpanInv, NEW t \in Threads, Spans!Emit(t)
  PROVE  SpanInv'
<1>. USE DEF SpanInv, Spans!SenderAssumption
<1>1. /\ emitted' = emitted + 1 /\ emitted \in Nat /\ thread[t].of # None
      /\ UNCHANGED <<registry, sender, shutdown, late, exiting>>
  BY DEF Spans!Emit, SpanTypes
<1>2. /\ thread' \in [Threads -> [pc : {"idle", "building", "offering", "appending"},
                                  of : Senders \cup {None}, event : Nat \cup {None}]]
      /\ \A u \in Threads \ {t} : thread'[u] = thread[u]
      /\ thread'[t].of = thread[t].of
      /\ InHand(t)' => thread'[t].event = emitted + 1
  <2>1. CASE sender[thread[t].of].closing
    <3>1. thread' = thread /\ thread[t].pc = "idle" BY <2>1 DEF Spans!Emit
    <3>2. QED BY <3>1 DEF InHand, SpanTypes
  <2>2. CASE ~sender[thread[t].of].closing
    <3>1. thread' = [thread EXCEPT ![t].pc = "offering", ![t].event = emitted + 1]
      BY <1>1, <2>2 DEF Spans!Emit
    <3>7. PICK z \in [pc : {"idle", "building", "offering", "appending"},
                       of : Senders \cup {None}, event : Nat \cup {None}] : z = thread[t]
      BY DEF SpanTypes
    <3>2. PICK y : y = [z EXCEPT !.pc = "offering", !.event = emitted + 1] OBVIOUS
    <3>3. thread' = [thread EXCEPT ![t] = y] BY <3>1, <3>2, <3>7
    <3>4. y \in [pc : {"idle", "building", "offering", "appending"},
                 of : Senders \cup {None}, event : Nat \cup {None}]
      <4>1. emitted + 1 \in Nat \cup {None} BY <1>1
      <4>2. QED BY <3>2, <4>1
    <3>5. y.of = thread[t].of /\ y.event = emitted + 1 BY <3>2, <3>7
    <3>6. QED BY <3>3, <3>4, <3>5 DEF SpanTypes
  <2>3. QED BY <2>1, <2>2
<1>3. \A s \in Senders : Spans!Queued(s)' = Spans!Queued(s) BY <1>1 DEF Spans!Queued
<1>4. \A u \in Threads : InHand(u)' /\ u # t => InHand(u) /\ thread'[u] = thread[u]
  BY <1>2 DEF InHand
<1>5. 1..emitted \subseteq 1..emitted' /\ emitted + 1 \in 1..emitted' /\ emitted + 1 \notin 1..emitted
  BY <1>1
<1>6. SpanTypes' BY <1>1, <1>2 DEF SpanTypes
<1>7. Held' BY <1>1, <1>2, <1>4 DEF Held
<1>8. Lives' BY <1>1, <1>3 DEF Lives
<1>9. Once'
  <2>1. late' \subseteq 1..emitted' /\ \A s \in Senders : Spans!Queued(s)' \subseteq 1..emitted'
    BY <1>1, <1>3, <1>5 DEF Once
  <2>2. ASSUME NEW u \in Threads, InHand(u)'
        PROVE  /\ thread'[u].event \in 1..emitted' /\ thread'[u].event \notin late'
               /\ \A s \in Senders : thread'[u].event \notin Spans!Queued(s)'
    BY <1>1, <1>2, <1>3, <1>4, <1>5, <2>2 DEF Once
  <2>3. ASSUME NEW u \in Threads, NEW w \in Threads, InHand(u)', InHand(w)', u # w
        PROVE  thread'[u].event # thread'[w].event
    BY <1>2, <1>4, <1>5, <2>3 DEF Once
  <2>4. \A s, u \in Senders : s # u => Spans!Queued(s)' \cap Spans!Queued(u)' = {}
    BY <1>3 DEF Once
  <2>5. QED BY <2>1, <2>2, <2>3, <2>4 DEF Once
<1>10. Awaited'
  <2>1. \A k \in Shutdowns : \A u \in Threads : InHand(u)' => thread'[u].event \notin shutdown'[k].before
    BY <1>1, <1>2, <1>4, <1>5 DEF Awaited
  <2>2. QED BY <1>1, <1>3, <1>5, <2>1 DEF Awaited
<1>11. QED BY <1>6, <1>7, <1>8, <1>9, <1>10

LEMMA OfferStep ==
  ASSUME Spans!SenderAssumption, SpanInv, NEW t \in Threads, Spans!Offer(t)
  PROVE  SpanInv'
<1>. USE DEF SpanInv, Spans!SenderAssumption
<1>1. /\ UNCHANGED <<registry, sender, shutdown, emitted, late, exiting>>
      /\ thread[t].pc = "offering"
      /\ thread' \in [Threads -> [pc : {"idle", "building", "offering", "appending"},
                                  of : Senders \cup {None}, event : Nat \cup {None}]]
      /\ \A u \in Threads \ {t} : thread'[u] = thread[u]
      /\ thread'[t].of = thread[t].of
      /\ InHand(t)' => thread'[t].event = thread[t].event
  BY DEF Spans!Offer, Spans!Idle, SpanTypes, InHand
<1>2. \A s \in Senders : Spans!Queued(s)' = Spans!Queued(s) BY <1>1 DEF Spans!Queued
<1>3. \A u \in Threads : InHand(u)' =>
        InHand(u) /\ thread'[u].event = thread[u].event /\ thread'[u].of = thread[u].of
  BY <1>1 DEF InHand
<1>4. SpanTypes' BY <1>1 DEF SpanTypes
<1>5. Held' BY <1>1, <1>3 DEF Held
<1>6. Lives' BY <1>1, <1>2 DEF Lives
<1>7. Once' BY <1>1, <1>2, <1>3 DEF Once
<1>8. Awaited' BY <1>1, <1>2, <1>3 DEF Awaited
<1>9. QED BY <1>4, <1>5, <1>6, <1>7, <1>8

\* What Enqueue leaves in a queue: what was there, and the event.
LEMMA Appended ==
  ASSUME NEW q \in Seq(Nat), NEW e \in Nat, NEW bound \in Nat \ {0}
  PROVE  /\ (IF Len(q) = bound THEN Tail(q) ELSE q) \o <<e>> \in Seq(Nat)
         /\ ToSet((IF Len(q) = bound THEN Tail(q) ELSE q) \o <<e>>) \subseteq ToSet(q) \cup {e}
<1>1. PICK r : r = (IF Len(q) = bound THEN Tail(q) ELSE q) \o <<e>> OBVIOUS
<1>2. CASE Len(q) = bound
  <2>1. q # <<>> BY <1>2, EmptySeq
  <2>2. Tail(q) \in Seq(Nat) /\ \A i \in 1..Len(Tail(q)) : Tail(q)[i] = q[i + 1]
    BY <2>1, HeadTailProperties
  <2>3. Len(Tail(q)) = Len(q) - 1 BY <2>1, HeadTailProperties
  <2>4. r \in Seq(Nat) BY <1>1, <1>2, <2>2
  <2>5. \A i \in DOMAIN r : r[i] \in ToSet(q) \cup {e} BY <1>1, <1>2, <2>2, <2>3 DEF ToSet
  <2>6. QED BY <1>1, <2>4, <2>5 DEF ToSet
<1>3. CASE Len(q) # bound
  <2>1. r = q \o <<e>> BY <1>1, <1>3
  <2>2. \A i \in DOMAIN r : r[i] \in ToSet(q) \cup {e} BY <2>1 DEF ToSet
  <2>3. QED BY <1>1, <2>1, <2>2 DEF ToSet
<1>4. QED BY <1>2, <1>3

LEMMA EnqueueStep ==
  ASSUME Spans!SenderAssumption, SpanInv, NEW t \in Threads, Spans!Enqueue(t)
  PROVE  SpanInv'
<1>. USE DEF SpanInv, Spans!SenderAssumption
<1>1. PICK s \in Senders : s = thread[t].of /\ sender[s].built
  BY DEF Spans!Enqueue, InHand, Held, SpanTypes
<1>2. InHand(t) /\ UNCHANGED <<registry, shutdown, emitted, exiting>>
  BY DEF Spans!Enqueue, InHand
<1>3. PICK e \in Nat : e = thread[t].event /\ e \in 1..emitted /\ e \notin late
  BY <1>2 DEF Once, SpanTypes
<1>4. /\ thread' = [thread EXCEPT ![t].pc = "idle", ![t].event = None]
      /\ late' = IF sender[s].stopped THEN late \cup {e} ELSE late
  BY <1>1, <1>3 DEF Spans!Enqueue
<1>5. /\ thread' \in [Threads -> [pc : {"idle", "building", "offering", "appending"},
                                  of : Senders \cup {None}, event : Nat \cup {None}]]
      /\ \A u \in Threads \ {t} : thread'[u] = thread[u]
      /\ \A u \in Threads : thread'[u].of = thread[u].of
      /\ ~InHand(t)'
  <2>6. PICK z \in [pc : {"idle", "building", "offering", "appending"},
                     of : Senders \cup {None}, event : Nat \cup {None}] : z = thread[t]
    BY DEF SpanTypes
  <2>1. PICK y : y = [z EXCEPT !.pc = "idle", !.event = None] OBVIOUS
  <2>2. thread' = [thread EXCEPT ![t] = y] BY <1>4, <2>1, <2>6
  <2>3. y \in [pc : {"idle", "building", "offering", "appending"},
               of : Senders \cup {None}, event : Nat \cup {None}]
    BY <2>1
  <2>4. y.of = thread[t].of /\ y.pc = "idle" BY <2>1, <2>6
  <2>5. QED BY <2>2, <2>3, <2>4 DEF SpanTypes, InHand
<1>6. PICK q : q = (IF Len(sender[s].queue) = MaxQueue THEN Tail(sender[s].queue)
                    ELSE sender[s].queue) \o <<e>>
  OBVIOUS
<1>22. sender' = [sender EXCEPT ![s].queue = q] BY <1>1, <1>3, <1>6 DEF Spans!Enqueue
<1>7. q \in Seq(Nat) /\ ToSet(q) \subseteq ToSet(sender[s].queue) \cup {e}
  <2>1. MaxQueue \in Nat /\ MaxQueue # 0 OBVIOUS
  <2>2. sender[s].queue \in Seq(Nat) BY DEF SpanTypes, SenderRec
  <2>3. /\ (IF Len(sender[s].queue) = MaxQueue THEN Tail(sender[s].queue)
            ELSE sender[s].queue) \o <<e>> \in Seq(Nat)
        /\ ToSet((IF Len(sender[s].queue) = MaxQueue THEN Tail(sender[s].queue)
                  ELSE sender[s].queue) \o <<e>>) \subseteq ToSet(sender[s].queue) \cup {e}
    BY <2>1, <2>2, Appended
  <2>4. QED BY <1>6, <2>3
<1>23. PICK z \in SenderRec : z = sender[s] BY DEF SpanTypes
<1>19. PICK y : y = [z EXCEPT !.queue = q] OBVIOUS
<1>20. y \in SenderRec BY <1>7, <1>19 DEF SenderRec
<1>21. sender' = [sender EXCEPT ![s] = y] BY <1>19, <1>22, <1>23
<1>8. /\ sender' \in [Senders -> SenderRec]
      /\ \A u \in Senders \ {s} : sender'[u] = sender[u]
      /\ sender'[s] = y
  BY <1>20, <1>21 DEF SpanTypes
<1>24. /\ y.queue = q /\ y.batch = z.batch /\ y.built = z.built
       /\ y.closing = z.closing /\ y.stopped = z.stopped
       /\ y.ended = z.ended /\ y.shut = z.shut /\ y.overdue = z.overdue
  BY <1>19 DEF SenderRec
<1>9. sender'[s].queue = q /\ sender'[s].batch = sender[s].batch /\ \A u \in Senders :
        /\ sender'[u].built = sender[u].built
        /\ sender'[u].closing = sender[u].closing /\ sender'[u].stopped = sender[u].stopped
        /\ sender'[u].ended = sender[u].ended /\ sender'[u].shut = sender[u].shut
        /\ sender'[u].overdue = sender[u].overdue
  BY <1>8, <1>23, <1>24
<1>10. /\ Spans!Queued(s)' \subseteq Spans!Queued(s) \cup {e}
       /\ \A u \in Senders \ {s} : Spans!Queued(u)' = Spans!Queued(u)
  <2>1. \A u \in Senders : Spans!Queued(u) = ToSet(sender[u].queue) \cup sender[u].batch
    BY DEF Spans!Queued, Spans!ToSet, ToSet
  <2>2. \A u \in Senders : Spans!Queued(u)' = ToSet(sender'[u].queue) \cup sender'[u].batch
    BY DEF Spans!Queued, Spans!ToSet, ToSet
  <2>3. Spans!Queued(s)' \subseteq Spans!Queued(s) \cup {e} BY <1>7, <1>9, <2>1, <2>2
  <2>4. \A u \in Senders \ {s} : Spans!Queued(u)' = Spans!Queued(u) BY <1>8, <2>1, <2>2
  <2>5. QED BY <2>3, <2>4
<1>11. /\ \A u \in Senders : e \notin Spans!Queued(u)
       /\ \A u \in Threads : InHand(u)' =>
            InHand(u) /\ u # t /\ thread'[u] = thread[u] /\ thread[u].event # e
  <2>1. \A u \in Senders : e \notin Spans!Queued(u) BY <1>2, <1>3 DEF Once
  <2>2. \A u \in Threads : InHand(u)' => InHand(u) /\ u # t /\ thread'[u] = thread[u]
    BY <1>5 DEF InHand
  <2>3. \A u \in Threads : InHand(u) /\ u # t => thread[u].event # e BY <1>2, <1>3 DEF Once
  <2>4. QED BY <2>1, <2>2, <2>3
<1>12. late \subseteq late' /\ late' \subseteq late \cup {e} BY <1>4
<1>13. SpanTypes' BY <1>2, <1>5, <1>8 DEF SpanTypes
<1>14. Held'
  <2>1. \A u \in Threads : thread'[u].of # None => sender'[thread'[u].of].built
    BY <1>5, <1>9 DEF Held, SpanTypes
  <2>2. \A u \in Threads : InHand(u)' => thread'[u].of # None BY <1>11 DEF Held
  <2>3. \A k \in Shutdowns : \A u \in shutdown'[k].senders : sender'[u].built /\ u # registry'
    BY <1>2, <1>9 DEF Held, SpanTypes
  <2>4. QED BY <1>2, <1>9, <2>1, <2>2, <2>3 DEF Held, SpanTypes
<1>15. Lives'
  <2>1. ASSUME NEW u \in Senders, u # s
        PROVE  Spans!Queued(u)' \cap late' = Spans!Queued(u) \cap late
    BY <1>10, <1>11, <1>12, <2>1
  <2>2. sender[s].ended => Spans!Queued(s)' \subseteq late'
    BY <1>4, <1>10 DEF Lives
  <2>3. Spans!Queued(s)' \cap late' # {} => sender[s].stopped
    BY <1>3, <1>4, <1>10 DEF Lives
  <2>4. \A u \in Senders : ~sender[u].built => Spans!Queued(u)' = {}
    BY <1>1, <1>10 DEF Lives
  <2>5. \A u \in Senders : sender[u].ended => Spans!Queued(u)' \subseteq late'
    BY <1>10, <1>12, <2>2 DEF Lives
  <2>6. \A u \in Senders : Spans!Queued(u)' \cap late' # {} => sender[u].stopped
    BY <2>1, <2>3 DEF Lives
  <2>7. QED BY <1>2, <1>9, <2>4, <2>5, <2>6 DEF Lives
<1>16. Once'
  <2>1. late' \subseteq 1..emitted' /\ \A u \in Senders : Spans!Queued(u)' \subseteq 1..emitted'
    BY <1>2, <1>3, <1>10, <1>12 DEF Once
  <2>2. ASSUME NEW u \in Threads, InHand(u)'
        PROVE  /\ thread'[u].event \in 1..emitted' /\ thread'[u].event \notin late'
               /\ \A v \in Senders : thread'[u].event \notin Spans!Queued(v)'
    BY <1>2, <1>10, <1>11, <1>12, <2>2 DEF Once
  <2>3. ASSUME NEW u \in Threads, NEW w \in Threads, InHand(u)', InHand(w)', u # w
        PROVE  thread'[u].event # thread'[w].event
    BY <1>11, <2>3 DEF Once
  <2>4. \A v, u \in Senders : v # u => Spans!Queued(v)' \cap Spans!Queued(u)' = {}
    BY <1>10, <1>11 DEF Once
  <2>5. QED BY <2>1, <2>2, <2>3, <2>4 DEF Once
<1>17. Awaited'
  <2>1. \A k \in Shutdowns : e \notin shutdown[k].before BY <1>2, <1>3 DEF Awaited
  <2>2. \A k \in Shutdowns : \A u \in Threads : InHand(u)' => thread'[u].event \notin shutdown'[k].before
    BY <1>2, <1>11 DEF Awaited
  <2>3. \A k \in Shutdowns : \A u \in Senders \ shutdown'[k].senders :
          shutdown'[k].before \cap Spans!Queued(u)' = {}
    BY <1>2, <1>10, <2>1 DEF Awaited
  <2>4. \A k \in Shutdowns : /\ shutdown'[k].before \subseteq 1..emitted'
                             /\ shutdown'[k].before \cap late' = {}
    BY <1>2, <1>12, <2>1 DEF Awaited
  <2>5. \A k \in Shutdowns : shutdown'[k].pc = "returned" => \A u \in shutdown'[k].senders : sender'[u].shut
    BY <1>2, <1>9 DEF Awaited, SpanTypes
  <2>6. QED BY <2>2, <2>3, <2>4, <2>5 DEF Awaited
<1>18. QED BY <1>13, <1>14, <1>15, <1>16, <1>17

-----------------------------------------------------------------------------
(* What the steps of a sender keep.                                        *)

\* A step of one sender that queues nothing, undoes nothing and keeps to its life.
LEMMA SenderStep ==
  ASSUME SpanInv, NEW s \in Senders, NEW y \in SenderRec,
         sender' = [sender EXCEPT ![s] = y],
         UNCHANGED <<registry, thread, shutdown, emitted, late, exiting>>,
         y.built = sender[s].built,
         ToSet(y.queue) \cup y.batch \subseteq Spans!Queued(s),
         sender[s].stopped => y.stopped, sender[s].shut => y.shut,
         y.closing => sender[s].closing \/ (y.built /\ s # registry),
         y.stopped => y.built /\ (y.closing \/ exiting),
         y.shut => y.stopped /\ (y.overdue \/ y.ended),
         y.ended => y.stopped /\ ToSet(y.queue) \cup y.batch \subseteq late
  PROVE  SpanInv'
<1>. USE DEF SpanInv
<1>1. /\ sender' \in [Senders -> SenderRec] /\ sender'[s] = y
      /\ \A u \in Senders \ {s} : sender'[u] = sender[u]
  BY DEF SpanTypes
<1>2. /\ \A u \in Senders : Spans!Queued(u)' = ToSet(sender'[u].queue) \cup sender'[u].batch
      /\ \A u \in Senders : Spans!Queued(u) = ToSet(sender[u].queue) \cup sender[u].batch
  BY DEF Spans!Queued, Spans!ToSet, ToSet
<1>3. \A u \in Senders : Spans!Queued(u)' \subseteq Spans!Queued(u) BY <1>1, <1>2
<1>4. \A u \in Senders : /\ sender'[u].built = sender[u].built
                         /\ sender[u].shut => sender'[u].shut
                         /\ sender[u].stopped => sender'[u].stopped
  BY <1>1
<1>5. \A t \in Threads : InHand(t)' = InHand(t) BY DEF InHand
<1>6. SpanTypes' BY <1>1 DEF SpanTypes
<1>7. Held'
  <2>1. \A t \in Threads : thread'[t].of # None => sender'[thread'[t].of].built
    BY <1>4 DEF Held, SpanTypes
  <2>2. \A k \in Shutdowns : \A u \in shutdown'[k].senders : sender'[u].built /\ u # registry'
    BY <1>4 DEF Held, SpanTypes
  <2>3. registry' # None => sender'[registry'].built /\ ~sender'[registry'].closing
    BY <1>1, <1>4 DEF Held, SpanTypes
  <2>4. QED BY <1>5, <2>1, <2>2, <2>3 DEF Held
<1>8. Lives'
  <2>1. ASSUME NEW u \in Senders, u # s
        PROVE  /\ ~sender'[u].built => Spans!Queued(u)' = {}
               /\ sender'[u].closing \/ sender'[u].stopped => sender'[u].built
               /\ sender'[u].stopped => sender'[u].closing \/ exiting'
               /\ sender'[u].shut => sender'[u].stopped /\ (sender'[u].overdue \/ sender'[u].ended)
               /\ sender'[u].ended => sender'[u].stopped /\ Spans!Queued(u)' \subseteq late'
               /\ Spans!Queued(u)' \cap late' # {} => sender'[u].stopped
    BY <1>1, <1>3, <2>1 DEF Lives
  <2>2. /\ ~sender'[s].built => Spans!Queued(s)' = {}
        /\ sender'[s].closing \/ sender'[s].stopped => sender'[s].built
        /\ Spans!Queued(s)' \cap late' # {} => sender'[s].stopped
    BY <1>1, <1>3 DEF Lives
  <2>3. /\ sender'[s].stopped => sender'[s].closing \/ exiting'
        /\ sender'[s].shut => sender'[s].stopped /\ (sender'[s].overdue \/ sender'[s].ended)
        /\ sender'[s].ended => sender'[s].stopped /\ Spans!Queued(s)' \subseteq late'
    BY <1>1, <1>2
  <2>4. QED BY <2>1, <2>2, <2>3 DEF Lives
<1>9. Once' BY <1>3, <1>5 DEF Once
<1>10. Awaited'
  <2>1. \A k \in Shutdowns : shutdown'[k].pc = "returned" => \A u \in shutdown'[k].senders : sender'[u].shut
    BY <1>4 DEF Awaited, SpanTypes
  <2>2. \A k \in Shutdowns : \A u \in Senders \ shutdown'[k].senders :
          shutdown'[k].before \cap Spans!Queued(u)' = {}
    BY <1>3 DEF Awaited
  <2>3. QED BY <1>5, <2>1, <2>2 DEF Awaited
<1>11. QED BY <1>6, <1>7, <1>8, <1>9, <1>10

\* What a sender's life says of one of them, for the lemma above.
LEMMA OneLife ==
  ASSUME SpanInv, NEW s \in Senders, NEW z \in SenderRec, z = sender[s]
  PROVE  /\ Spans!Queued(s) = ToSet(z.queue) \cup z.batch
         /\ z.stopped => z.built /\ (z.closing \/ exiting)
         /\ z.shut => z.stopped /\ (z.overdue \/ z.ended)
         /\ z.ended => z.stopped /\ ToSet(z.queue) \cup z.batch \subseteq late
<1>1. Spans!Queued(s) = ToSet(z.queue) \cup z.batch BY DEF Spans!Queued, Spans!ToSet, ToSet
<1>2. QED BY <1>1 DEF SpanInv, Lives

LEMMA Taken ==
  ASSUME NEW q \in Seq(Nat), NEW n \in 0..Len(q)
  PROVE  /\ SubSeq(q, n + 1, Len(q)) \in Seq(Nat)
         /\ ToSet(SubSeq(q, 1, n)) \subseteq ToSet(q)
         /\ ToSet(SubSeq(q, n + 1, Len(q))) \subseteq ToSet(q)
         /\ ToSet(q) \subseteq Nat
<1>1. PICK b : b = SubSeq(q, 1, n) OBVIOUS
<1>2. PICK r : r = SubSeq(q, n + 1, Len(q)) OBVIOUS
<1>3. b \in Seq(Nat) /\ Len(b) = n /\ \A i \in 1..n : b[i] = q[i] BY <1>1
<1>4. r \in Seq(Nat) /\ Len(r) = Len(q) - n /\ \A i \in 1..Len(r) : r[i] = q[n + i] BY <1>2
<1>5. ToSet(b) \subseteq ToSet(q) BY <1>3 DEF ToSet
<1>6. ToSet(r) \subseteq ToSet(q)
  <2>1. ASSUME NEW i \in DOMAIN r PROVE n + i \in DOMAIN q /\ r[i] = q[n + i]
    <3>1. i \in 1..Len(r) /\ DOMAIN q = 1..Len(q) /\ Len(q) \in Nat /\ n \in Nat BY <1>4
    <3>2. i \in Int /\ 1 <= i /\ i <= Len(q) - n BY <1>4, <3>1
    <3>3. r[i] = q[n + i] BY <1>4, <3>1
    <3>4. \A l, m, j \in Int : (0 <= m /\ 1 <= j /\ j <= l - m) => m + j \in 1..l OBVIOUS
    <3>5. n + i \in 1..Len(q) BY <3>1, <3>2, <3>4
    <3>6. QED BY <3>1, <3>3, <3>5
  <2>2. QED BY <2>1 DEF ToSet
<1>7. ToSet(q) \subseteq Nat BY DEF ToSet
<1>8. QED BY <1>1, <1>2, <1>4, <1>5, <1>6, <1>7

LEMMA WorkerStep ==
  ASSUME Spans!SenderAssumption, SpanInv, NEW s \in Senders,
         Spans!Take(s) \/ Spans!Exported(s) \/ Spans!End(s) \/ Spans!Stop(s) \/ Spans!Joined(s)
  PROVE  SpanInv'
<1>1. PICK z \in SenderRec : z = sender[s] BY DEF SpanInv, SpanTypes
<1>2. /\ Spans!Queued(s) = ToSet(z.queue) \cup z.batch
      /\ z.stopped => z.built /\ (z.closing \/ exiting)
      /\ z.shut => z.stopped /\ (z.overdue \/ z.ended)
      /\ z.ended => z.stopped /\ ToSet(z.queue) \cup z.batch \subseteq late
  BY <1>1, OneLife
<1>3. CASE Spans!Take(s)
  <2>1. PICK n : n = IF Len(z.queue) < MaxBatch THEN Len(z.queue) ELSE MaxBatch OBVIOUS
  <2>2. n \in 0..Len(z.queue) /\ z.queue \in Seq(Nat)
    BY <2>1 DEF Spans!SenderAssumption, SenderRec
  <2>3. PICK b, q : b = ToSet(SubSeq(z.queue, 1, n)) /\ q = SubSeq(z.queue, n + 1, Len(z.queue))
    OBVIOUS
  <2>4. q \in Seq(Nat) /\ b \subseteq ToSet(z.queue) /\ ToSet(q) \subseteq ToSet(z.queue) /\ b \in SUBSET Nat
    BY <2>2, <2>3, Taken
  <2>5. PICK y : y = [z EXCEPT !.batch = b, !.queue = q] OBVIOUS
  <2>6. /\ y \in SenderRec /\ y.queue = q /\ y.batch = b /\ y.built = z.built
        /\ y.closing = z.closing /\ y.stopped = z.stopped
        /\ y.ended = z.ended /\ y.shut = z.shut /\ y.overdue = z.overdue
    BY <2>4, <2>5 DEF SenderRec
  <2>7. sender' = [sender EXCEPT ![s] = y]
    <3>1. sender' = [sender EXCEPT ![s].batch = b, ![s].queue = q]
      BY <1>1, <1>3, <2>1, <2>3 DEF Spans!Take, Spans!ToSet, ToSet
    <3>2. QED BY <1>1, <2>5, <3>1
  <2>8. ~z.ended /\ UNCHANGED <<registry, thread, shutdown, emitted, late, exiting>>
    BY <1>1, <1>3 DEF Spans!Take
  <2>9. QED BY <1>1, <1>2, <2>4, <2>6, <2>7, <2>8, SenderStep
<1>4. CASE Spans!Exported(s)
  <2>1. PICK y : y = [z EXCEPT !.batch = {}] OBVIOUS
  <2>2. /\ y \in SenderRec /\ y.queue = z.queue /\ y.batch = {} /\ y.built = z.built
        /\ y.closing = z.closing /\ y.stopped = z.stopped
        /\ y.ended = z.ended /\ y.shut = z.shut /\ y.overdue = z.overdue
    BY <2>1 DEF SenderRec
  <2>3. sender' = [sender EXCEPT ![s] = y] BY <1>1, <1>4, <2>1 DEF Spans!Exported
  <2>4. UNCHANGED <<registry, thread, shutdown, emitted, late, exiting>>
    BY <1>4 DEF Spans!Exported
  <2>5. QED BY <1>1, <1>2, <2>2, <2>3, <2>4, SenderStep
<1>5. CASE Spans!End(s)
  <2>1. PICK y : y = [z EXCEPT !.ended = TRUE] OBVIOUS
  <2>2. /\ y \in SenderRec /\ y.queue = z.queue /\ y.batch = z.batch /\ y.built = z.built
        /\ y.closing = z.closing /\ y.stopped = z.stopped
        /\ y.ended /\ y.shut = z.shut /\ y.overdue = z.overdue
    BY <2>1 DEF SenderRec
  <2>3. sender' = [sender EXCEPT ![s] = y] BY <1>1, <1>5, <2>1 DEF Spans!End
  <2>4. /\ z.stopped /\ z.queue = <<>> /\ z.batch = {}
        /\ UNCHANGED <<registry, thread, shutdown, emitted, late, exiting>>
    BY <1>1, <1>5 DEF Spans!End
  <2>5. ToSet(y.queue) \cup y.batch = {} BY <2>2, <2>4 DEF ToSet
  <2>6. QED BY <1>1, <1>2, <2>2, <2>3, <2>4, <2>5, SenderStep
<1>6. CASE Spans!Stop(s)
  <2>1. PICK y : y = [z EXCEPT !.stopped = TRUE] OBVIOUS
  <2>2. /\ y \in SenderRec /\ y.queue = z.queue /\ y.batch = z.batch /\ y.built = z.built
        /\ y.closing = z.closing /\ y.stopped
        /\ y.ended = z.ended /\ y.shut = z.shut /\ y.overdue = z.overdue
    BY <2>1 DEF SenderRec
  <2>3. sender' = [sender EXCEPT ![s] = y] BY <1>1, <1>6, <2>1 DEF Spans!Stop
  <2>4. /\ z.built /\ (z.closing \/ exiting)
        /\ UNCHANGED <<registry, thread, shutdown, emitted, late, exiting>>
    BY <1>1, <1>6 DEF Spans!Stop
  <2>5. QED BY <1>1, <1>2, <2>2, <2>3, <2>4, SenderStep
<1>7. CASE Spans!Joined(s)
  <2>1. PICK y : y = [z EXCEPT !.shut = TRUE, !.overdue = ~z.ended] OBVIOUS
  <2>2. /\ y \in SenderRec /\ y.queue = z.queue /\ y.batch = z.batch /\ y.built = z.built
        /\ y.closing = z.closing /\ y.stopped = z.stopped
        /\ y.ended = z.ended /\ y.shut /\ y.overdue = ~z.ended
    BY <2>1 DEF SenderRec
  <2>3. sender' = [sender EXCEPT ![s] = y] BY <1>1, <1>7, <2>1 DEF Spans!Joined
  <2>4. z.stopped /\ UNCHANGED <<registry, thread, shutdown, emitted, late, exiting>>
    BY <1>1, <1>7 DEF Spans!Joined
  <2>5. QED BY <1>1, <1>2, <2>2, <2>3, <2>4, SenderStep
<1>8. QED BY <1>3, <1>4, <1>5, <1>6, <1>7

LEMMA CloseStep ==
  ASSUME Spans!SenderAssumption, SpanInv, NEW k \in Shutdowns, Spans!Close(k)
  PROVE  SpanInv'
<1>1. PICK s \in shutdown[k].senders : sender' = [sender EXCEPT ![s].closing = TRUE]
  BY DEF Spans!Close
<1>2. s \in Senders /\ sender[s].built /\ s # registry
  BY DEF SpanInv, SpanTypes, Held
<1>3. PICK z \in SenderRec : z = sender[s] BY <1>2 DEF SpanInv, SpanTypes
<1>4. PICK y : y = [z EXCEPT !.closing = TRUE] OBVIOUS
<1>5. /\ y \in SenderRec /\ y.queue = z.queue /\ y.batch = z.batch /\ y.built = z.built
      /\ y.closing /\ y.stopped = z.stopped
      /\ y.ended = z.ended /\ y.shut = z.shut /\ y.overdue = z.overdue
  BY <1>4 DEF SenderRec
<1>6. sender' = [sender EXCEPT ![s] = y] BY <1>1, <1>3, <1>4
<1>7. UNCHANGED <<registry, thread, shutdown, emitted, late, exiting>> BY DEF Spans!Close
<1>8. /\ Spans!Queued(s) = ToSet(z.queue) \cup z.batch
      /\ z.stopped => z.built /\ (z.closing \/ exiting)
      /\ z.shut => z.stopped /\ (z.overdue \/ z.ended)
      /\ z.ended => z.stopped /\ ToSet(z.queue) \cup z.batch \subseteq late
  BY <1>2, <1>3, OneLife
<1>9. QED BY <1>2, <1>3, <1>5, <1>6, <1>7, <1>8, SenderStep

LEMMA ShutdownStep ==
  ASSUME Spans!SenderAssumption, SpanInv, NEW k \in Shutdowns,
         Spans!Shutdown(k) \/ Spans!Returned(k)
  PROVE  SpanInv'
<1>. USE DEF SpanInv, Spans!SenderAssumption
<1>1. UNCHANGED <<sender, thread, emitted, late, exiting>>
  BY DEF Spans!Shutdown, Spans!Returned
<1>2. /\ \A s \in Senders : Spans!Queued(s)' = Spans!Queued(s)
      /\ \A t \in Threads : InHand(t)' = InHand(t)
  BY <1>1 DEF Spans!Queued, InHand
<1>3. Lives' /\ Once' BY <1>1, <1>2 DEF Lives, Once
<1>4. CASE Spans!Shutdown(k)
  <2>1. PICK y : y = [pc |-> "closing", senders |-> {registry} \ {None},
                      before |-> IF registry = None THEN {} ELSE Spans!Queued(registry)]
    OBVIOUS
  <2>2. registry' = None /\ shutdown' = [shutdown EXCEPT ![k] = y] /\ ~exiting
    BY <1>4, <2>1 DEF Spans!Shutdown
  <2>3. y.before \in SUBSET Nat /\ y.senders \in SUBSET Senders /\ y.before \subseteq 1..emitted
    BY <2>1 DEF Once, SpanTypes
  <2>4. SpanTypes' BY <1>1, <2>1, <2>2, <2>3 DEF SpanTypes
  <2>5. /\ \A j \in Shutdowns \ {k} : shutdown'[j] = shutdown[j]
        /\ shutdown'[k] = y
    BY <2>2 DEF SpanTypes
  <2>6. Held'
    <3>1. \A s \in y.senders : sender[s].built BY <2>1 DEF Held
    <3>2. \A j \in Shutdowns : \A s \in shutdown'[j].senders : sender'[s].built /\ s # registry'
      BY <1>1, <2>2, <2>3, <2>5, <3>1 DEF Held, SpanTypes
    <3>3. QED BY <1>1, <1>2, <2>2, <3>2 DEF Held
  <2>7. Awaited'
    <3>1. /\ y.before \cap late = {} /\ \A t \in Threads : InHand(t) => thread[t].event \notin y.before
          /\ \A s \in Senders \ y.senders : y.before \cap Spans!Queued(s) = {}
      <4>1. CASE registry = None BY <2>1, <4>1
      <4>2. CASE registry # None
        <5>1. registry \in Senders /\ ~sender[registry].stopped
          BY <2>2, <4>2 DEF SpanTypes, Held, Lives
        <5>2. y.before = Spans!Queued(registry) /\ y.senders = {registry} BY <2>1, <4>2
        <5>3. QED BY <5>1, <5>2 DEF Lives, Once
      <4>3. QED BY <4>1, <4>2
    <3>2. y.pc # "returned" BY <2>1
    <3>3. QED BY <1>1, <1>2, <2>3, <2>5, <3>1, <3>2 DEF Awaited
  <2>8. QED BY <1>3, <2>4, <2>6, <2>7
<1>5. CASE Spans!Returned(k)
  <2>1. /\ registry' = registry /\ shutdown' = [shutdown EXCEPT ![k].pc = "returned"]
        /\ \A s \in shutdown[k].senders : sender[s].shut
    BY <1>5 DEF Spans!Returned
  <2>2. PICK z \in [pc : {"idle", "closing", "returned"}, senders : SUBSET Senders,
                    before : SUBSET Nat] : z = shutdown[k]
    BY DEF SpanTypes
  <2>3. PICK y : y = [z EXCEPT !.pc = "returned"] OBVIOUS
  <2>4. shutdown' = [shutdown EXCEPT ![k] = y] BY <2>1, <2>2, <2>3
  <2>5. /\ y \in [pc : {"idle", "closing", "returned"}, senders : SUBSET Senders,
                  before : SUBSET Nat]
        /\ y.senders = z.senders /\ y.before = z.before
    BY <2>3
  <2>6. SpanTypes' BY <1>1, <2>1, <2>4, <2>5 DEF SpanTypes
  <2>7. /\ \A j \in Shutdowns \ {k} : shutdown'[j] = shutdown[j]
        /\ shutdown'[k] = y
    BY <2>4 DEF SpanTypes
  <2>8. \A j \in Shutdowns : /\ shutdown'[j].senders = shutdown[j].senders
                             /\ shutdown'[j].before = shutdown[j].before
    BY <2>2, <2>5, <2>7
  <2>9. Held' BY <1>1, <1>2, <2>1, <2>8 DEF Held
  <2>10. Awaited'
    <3>1. \A j \in Shutdowns : shutdown'[j].pc = "returned" => \A s \in shutdown'[j].senders : sender'[s].shut
      BY <1>1, <2>1, <2>7, <2>8 DEF Awaited
    <3>2. QED BY <1>1, <1>2, <2>8, <3>1 DEF Awaited
  <2>11. QED BY <1>3, <2>6, <2>9, <2>10
<1>6. QED BY <1>4, <1>5

LEMMA ExitStep == ASSUME SpanInv, Spans!Exit PROVE SpanInv'
<1>. USE DEF SpanInv
<1>1. exiting' = TRUE /\ UNCHANGED <<registry, sender, thread, shutdown, emitted, late>>
  BY DEF Spans!Exit
<1>2. /\ \A s \in Senders : Spans!Queued(s)' = Spans!Queued(s)
      /\ \A t \in Threads : InHand(t)' = InHand(t)
  BY <1>1 DEF Spans!Queued, InHand
<1>3. QED BY <1>1, <1>2 DEF SpanTypes, Held, Lives, Once, Awaited

LEMMA SpansHold == ASSUME Spans!SenderAssumption PROVE Spans!Spec => []SpanInv
<1>1. Spans!Init => SpanInv BY SpanInit
<1>2. SpanInv /\ [Spans!Next]_(Spans!vars) => SpanInv'
  <2>. SUFFICES ASSUME SpanInv, [Spans!Next]_(Spans!vars) PROVE SpanInv' OBVIOUS
  <2>1. CASE UNCHANGED Spans!vars
    <3>1. UNCHANGED <<registry, sender, thread, shutdown, emitted, late, exiting>>
      BY <2>1 DEF Spans!vars
    <3>2. /\ \A s \in Senders : Spans!Queued(s)' = Spans!Queued(s)
          /\ \A t \in Threads : InHand(t)' = InHand(t)
      BY <3>1 DEF Spans!Queued, InHand
    <3>3. QED BY <3>1, <3>2 DEF SpanInv, SpanTypes, Held, Lives, Once, Awaited
  <2>2. CASE Spans!Next
    BY <2>2, GetSenderStep, CreateSenderStep, EmitStep, OfferStep, EnqueueStep,
       WorkerStep, CloseStep, ShutdownStep, ExitStep DEF Spans!Next
  <2>3. QED BY <2>1, <2>2
<1>3. QED BY <1>1, <1>2, PTL DEF Spans!Spec

LEMMA NothingLeftBehind == SpanInv => Spans!NothingForgotten
<1>. SUFFICES ASSUME SpanInv PROVE Spans!NothingForgotten OBVIOUS
<1>1. ASSUME NEW k \in Shutdowns, shutdown[k].pc = "returned", NEW s \in Senders
      PROVE  sender[s].overdue \/ shutdown[k].before \cap Spans!Queued(s) = {}
  BY <1>1 DEF SpanInv, Awaited, Lives
<1>2. ASSUME \A s \in Senders : sender[s].built => sender[s].shut, NEW s \in Senders
      PROVE  sender[s].overdue \/ Spans!Queued(s) \subseteq late
  BY <1>2 DEF SpanInv, Lives
<1>3. QED BY <1>1, <1>2 DEF Spans!NothingForgotten

LEMMA SpansPart == UsageSpec => Spans!Spec
<1>1. UsageInit => Spans!Init BY DEF UsageInit
<1>2. [UsageNext]_usageVars => [Spans!Next]_(Spans!vars)
  BY DEF UsageNext, usageVars, spanVars, Spans!vars
<1>3. QED BY <1>1, <1>2, PTL DEF UsageSpec, Spans!Spec

\* What is emitted leaves the process, unless newer events push it out or a shutdown
\* gives up waiting: for any number of threads, senders and shutdowns, any size of
\* queue and batch (hexgate/tracing/_senders.py: emit, shutdown, the hook at exit).
THEOREM NoEventIsForgotten == UsageSpec => []NothingForgotten
<1>1. Spans!SenderAssumption BY PartsAssumption
<1>2. UsageSpec => []SpanInv BY <1>1, SpansPart, SpansHold, PTL
<1>3. SpanInv => NothingForgotten BY NothingLeftBehind DEF NothingForgotten
<1>4. QED BY <1>2, <1>3, PTL

-----------------------------------------------------------------------------
(* The documents of OAuth clients.                                         *)

DocRec == [client : Clients, version : Versions, left : Nat, stale : Nat]
FailRec == [client : Clients, left : Nat]
FetchRec == [age : 0..FetchTimeout, read : Versions \cup {None}]

\* An LRU has one entry of a client.
Single(lru) == \A i, j \in DOMAIN lru : lru[i].client = lru[j].client => i = j

DocTypes ==
  /\ published \in [Clients -> Versions]
  /\ gone \in [Clients -> [Versions -> Nat]]
  /\ documents \in Seq(DocRec) /\ Len(documents) <= MaxEntries /\ Single(documents)
  /\ failures \in Seq(FailRec) /\ Len(failures) <= MaxEntries /\ Single(failures)
  /\ task \in [Clients -> FetchRec \cup {None}]
  /\ loaded \in [Clients -> Nat \cup {None}]

\* What is left of a document, and how long it has not been published, have a sum.
Aging ==
  \A e \in ToSet(documents) :
    /\ e.left <= e.stale
    /\ e.stale > 0 => gone[e.client][e.version] + e.stale <= DocumentTTL + MaxStale + FetchTimeout

\* What a fetch has read was published while it ran.
Reading ==
  \A c \in Clients :
    /\ gone[c][published[c]] = 0
    /\ (task[c] # None /\ task[c].read # None) => gone[c][task[c].read] <= task[c].age

\* A fetch runs for who has neither a document nor a failure.
Fetching ==
  \A c \in Clients : task[c] # None =>
    ~Documents!Live(documents, c) /\ ~Documents!Live(failures, c)

\* A client whose last good fetch is younger than a document and its grace has the
\* document still ...
Graced ==
  \A c \in Clients : loaded[c] # None /\ loaded[c] < DocumentTTL + MaxStale =>
    \E e \in ToSet(documents) : e.client = c /\ loaded[c] + e.stale >= DocumentTTL + MaxStale

\* ... and no failure.
Unrefused ==
  \A c \in Clients : loaded[c] # None /\ Documents!Live(failures, c) =>
    loaded[c] >= DocumentTTL + MaxStale

DocInv == DocTypes /\ Aging /\ Reading /\ Fetching /\ Graced /\ Unrefused

-----------------------------------------------------------------------------
(* The operations of an LRU.                                               *)

LEMMA EntriesAre ==
  /\ \A lru, c : Documents!Entries(lru, c) = {e \in ToSet(lru) : e.client = c}
  /\ \A lru, c : Documents!Live(lru, c) <=> \E e \in ToSet(lru) : e.client = c /\ e.left > 0
BY DEF Documents!Live, Documents!Entries, Documents!Range, ToSet

LEMMA WithoutIs ==
  ASSUME NEW E, NEW lru \in Seq(E), Single(lru), NEW c
  PROVE  /\ Documents!Without(lru, c) \in Seq(E) /\ Single(Documents!Without(lru, c))
         /\ ToSet(Documents!Without(lru, c)) = {e \in ToSet(lru) : e.client # c}
         /\ Len(Documents!Without(lru, c)) <= Len(lru)
         /\ (\E e \in ToSet(lru) : e.client = c) => Len(Documents!Without(lru, c)) = Len(lru) - 1
<1>. PICK w : w = Documents!Without(lru, c) OBVIOUS
<1>1. CASE Documents!Entries(lru, c) = {}
  <2>1. w = lru BY <1>1 DEF Documents!Without
  <2>2. \A e \in ToSet(lru) : e.client # c BY <1>1, EntriesAre
  <2>3. QED BY <2>1, <2>2
<1>2. CASE Documents!Entries(lru, c) # {}
  <2>1. PICK p : p = Documents!Place(lru, c) OBVIOUS
  <2>2. p \in DOMAIN lru /\ lru[p].client = c
    <3>1. \E i \in DOMAIN lru : lru[i].client = c BY <1>2, EntriesAre DEF ToSet
    <3>2. QED BY <2>1, <3>1 DEF Documents!Place
  <2>3. w = SubSeq(lru, 1, p - 1) \o SubSeq(lru, p + 1, Len(lru))
    BY <1>2, <2>1 DEF Documents!Without, Documents!RemoveAt
  <2>4. p \in 1..Len(lru) /\ Len(lru) \in Nat BY <2>2
  <2>5. PICK a, b : a = SubSeq(lru, 1, p - 1) /\ b = SubSeq(lru, p + 1, Len(lru)) OBVIOUS
  <2>6. a \in Seq(E) /\ Len(a) = p - 1 /\ \A i \in 1..p - 1 : a[i] = lru[i]
    BY <2>4, <2>5
  <2>7. b \in Seq(E) /\ Len(b) = Len(lru) - p /\ \A i \in 1..Len(lru) - p : b[i] = lru[p + i]
    BY <2>4, <2>5
  <2>8. w = a \o b BY <2>3, <2>5
  <2>9. w \in Seq(E) /\ Len(w) = Len(lru) - 1 BY <2>4, <2>6, <2>7, <2>8
  <2>10. \A i \in 1..Len(lru) - 1 : w[i] = IF i < p THEN lru[i] ELSE lru[i + 1]
    <3>1. ASSUME NEW i \in 1..Len(lru) - 1, i < p PROVE w[i] = lru[i]
      BY <2>4, <2>6, <2>7, <2>8, <3>1
    <3>2. ASSUME NEW i \in 1..Len(lru) - 1, ~(i < p) PROVE w[i] = lru[i + 1]
      <4>1. w[i] = b[i - (p - 1)] BY <2>4, <2>6, <2>7, <2>8, <3>2
      <4>2. i - (p - 1) \in 1..Len(lru) - p /\ p + (i - (p - 1)) = i + 1 BY <2>4, <3>2
      <4>3. QED BY <2>7, <4>1, <4>2
    <3>3. QED BY <3>1, <3>2
  <2>11. DOMAIN w = 1..Len(lru) - 1 /\ DOMAIN lru = 1..Len(lru) BY <2>9
  <2>12. \A i \in DOMAIN w : \E j \in DOMAIN lru :
           j # p /\ w[i] = lru[j] /\ j = (IF i < p THEN i ELSE i + 1)
    BY <2>4, <2>10, <2>11
  <2>13. \A j \in DOMAIN lru : j # p => \E i \in DOMAIN w : w[i] = lru[j]
    <3>1. ASSUME NEW j \in DOMAIN lru, j < p PROVE \E i \in DOMAIN w : w[i] = lru[j]
      BY <2>4, <2>10, <2>11, <3>1
    <3>2. ASSUME NEW j \in DOMAIN lru, j > p PROVE \E i \in DOMAIN w : w[i] = lru[j]
      <4>1. j - 1 \in DOMAIN w /\ ~(j - 1 < p) /\ (j - 1) + 1 = j BY <2>4, <2>11, <3>2
      <4>2. QED BY <2>10, <2>11, <4>1
    <3>3. QED BY <2>4, <2>11, <3>1, <3>2
  <2>14. Single(w)
    <3>1. ASSUME NEW i \in DOMAIN w, NEW k \in DOMAIN w, w[i].client = w[k].client PROVE i = k
      <4>1. PICK j \in DOMAIN lru : w[i] = lru[j] /\ j = (IF i < p THEN i ELSE i + 1) BY <2>12
      <4>2. PICK l \in DOMAIN lru : w[k] = lru[l] /\ l = (IF k < p THEN k ELSE k + 1) BY <2>12
      <4>3. j = l BY <3>1, <4>1, <4>2 DEF Single
      <4>4. QED BY <2>4, <2>11, <4>1, <4>2, <4>3
    <3>2. QED BY <3>1 DEF Single
  <2>15. \A j \in DOMAIN lru : j # p => lru[j].client # c BY <2>2 DEF Single
  <2>16. ToSet(w) = {e \in ToSet(lru) : e.client # c} BY <2>2, <2>12, <2>13, <2>15 DEF ToSet
  <2>17. QED BY <2>9, <2>14, <2>16
<1>3. QED BY <1>1, <1>2

LEMMA AppendIs ==
  ASSUME NEW E, NEW lru \in Seq(E), Single(lru), NEW e \in E,
         \A x \in ToSet(lru) : x.client # e.client
  PROVE  /\ Append(lru, e) \in Seq(E) /\ Single(Append(lru, e))
         /\ Len(Append(lru, e)) = Len(lru) + 1
         /\ ToSet(Append(lru, e)) = ToSet(lru) \cup {e}
<1>1. PICK a : a = Append(lru, e) OBVIOUS
<1>2. a \in Seq(E) /\ Len(a) = Len(lru) + 1 /\ a[Len(lru) + 1] = e
      /\ \A i \in 1..Len(lru) : a[i] = lru[i]
  BY <1>1
<1>3. DOMAIN a = 1..Len(lru) + 1 /\ DOMAIN lru = 1..Len(lru) /\ Len(lru) \in Nat BY <1>2
<1>4. \A i \in DOMAIN a : (i \in DOMAIN lru /\ a[i] = lru[i]) \/ (i = Len(lru) + 1 /\ a[i] = e)
  BY <1>2, <1>3
<1>5. \A i \in DOMAIN lru : lru[i].client # e.client BY DEF ToSet
<1>6. Single(a) BY <1>4, <1>5 DEF Single
<1>7. ToSet(a) = ToSet(lru) \cup {e} BY <1>2, <1>3, <1>4 DEF ToSet
<1>8. QED BY <1>1, <1>2, <1>6, <1>7

LEMMA PutIs ==
  ASSUME MaxEntries \in Nat \ {0}, NEW E, NEW lru \in Seq(E), Single(lru), Len(lru) <= MaxEntries,
         NEW e \in E
  PROVE  /\ Documents!Put(lru, e) \in Seq(E) /\ Single(Documents!Put(lru, e))
         /\ Len(Documents!Put(lru, e)) <= MaxEntries
         /\ e \in ToSet(Documents!Put(lru, e))
         /\ \A x \in ToSet(Documents!Put(lru, e)) :
              x = e \/ (x \in ToSet(lru) /\ x.client # e.client)
         /\ (\E x \in ToSet(lru) : x.client = e.client) =>
              \A x \in ToSet(lru) : x.client # e.client => x \in ToSet(Documents!Put(lru, e))
<1>1. PICK w : w = Documents!Without(lru, e.client) OBVIOUS
<1>2. /\ w \in Seq(E) /\ Single(w) /\ Len(w) <= Len(lru)
      /\ ToSet(w) = {x \in ToSet(lru) : x.client # e.client}
      /\ (\E x \in ToSet(lru) : x.client = e.client) => Len(w) = Len(lru) - 1
  BY <1>1, WithoutIs
<1>3. PICK s : s = Append(w, e) OBVIOUS
<1>4. /\ s \in Seq(E) /\ Single(s) /\ Len(s) = Len(w) + 1
      /\ ToSet(s) = ToSet(w) \cup {e}
  BY <1>2, <1>3, AppendIs
<1>5. PICK r : r = Documents!Put(lru, e) OBVIOUS
<1>6. r = IF Len(s) > MaxEntries THEN Tail(s) ELSE s BY <1>1, <1>3, <1>5 DEF Documents!Put
<1>7. Len(w) \in Nat /\ Len(lru) \in Nat /\ s[Len(w) + 1] = e BY <1>2, <1>3
<1>8. CASE Len(s) > MaxEntries
  <2>1. r = Tail(s) /\ s # <<>> /\ Len(s) <= MaxEntries + 1 /\ Len(s) >= 2
    BY <1>2, <1>4, <1>6, <1>7, <1>8
  <2>2. r \in Seq(E) /\ Len(r) = Len(s) - 1 BY <1>4, <2>1, HeadTailProperties
  <2>3. \A i \in 1..Len(r) : r[i] = s[i + 1] BY <1>4, <2>1, HeadTailProperties
  <2>4. DOMAIN r = 1..Len(s) - 1 /\ DOMAIN s = 1..Len(s) /\ Len(s) \in Nat BY <1>4, <2>2
  <2>5. \A i \in DOMAIN r : i + 1 \in DOMAIN s /\ r[i] = s[i + 1] BY <2>2, <2>3, <2>4
  <2>6. Single(r)
    <3>1. ASSUME NEW i \in DOMAIN r, NEW j \in DOMAIN r, r[i].client = r[j].client PROVE i = j
      <4>1. i + 1 = j + 1 BY <1>4, <2>5, <3>1 DEF Single
      <4>2. QED BY <2>4, <4>1
    <3>2. QED BY <3>1 DEF Single
  <2>7. ToSet(r) \subseteq ToSet(s) BY <2>5 DEF ToSet
  <2>8. e \in ToSet(r)
    <3>1. Len(s) - 1 \in DOMAIN r /\ (Len(s) - 1) + 1 = Len(w) + 1 BY <1>4, <1>7, <2>1, <2>4
    <3>2. r[Len(s) - 1] = e BY <1>7, <2>5, <3>1
    <3>3. QED BY <3>1, <3>2 DEF ToSet
  <2>9. ~\E x \in ToSet(lru) : x.client = e.client BY <1>2, <1>4, <1>7, <1>8
  <2>10. Len(r) <= MaxEntries BY <2>1, <2>2, <2>4
  <2>11. QED BY <1>2, <1>4, <1>5, <2>2, <2>6, <2>7, <2>8, <2>9, <2>10
<1>9. CASE ~(Len(s) > MaxEntries)
  <2>1. r = s /\ Len(s) <= MaxEntries BY <1>4, <1>6, <1>7, <1>9
  <2>2. QED BY <1>2, <1>4, <1>5, <2>1
<1>10. QED BY <1>8, <1>9

LEMMA TouchIs ==
  ASSUME NEW E, NEW lru \in Seq(E), Single(lru), NEW c
  PROVE  /\ Documents!Touch(lru, c) \in Seq(E) /\ Single(Documents!Touch(lru, c))
         /\ Len(Documents!Touch(lru, c)) = Len(lru)
         /\ ToSet(Documents!Touch(lru, c)) = ToSet(lru)
<1>1. PICK r : r = Documents!Touch(lru, c) OBVIOUS
<1>2. CASE Documents!Entries(lru, c) = {} BY <1>1, <1>2 DEF Documents!Touch
<1>3. CASE Documents!Entries(lru, c) # {}
  <2>1. PICK p : p = Documents!Place(lru, c) OBVIOUS
  <2>2. p \in DOMAIN lru /\ lru[p].client = c
    <3>1. \E i \in DOMAIN lru : lru[i].client = c BY <1>3, EntriesAre DEF ToSet
    <3>2. QED BY <2>1, <3>1 DEF Documents!Place
  <2>3. PICK w : w = Documents!Without(lru, c) OBVIOUS
  <2>4. lru[p] \in E /\ lru[p] \in ToSet(lru) BY <2>2 DEF ToSet
  <2>5. /\ w \in Seq(E) /\ Single(w) /\ Len(w) = Len(lru) - 1
        /\ ToSet(w) = {x \in ToSet(lru) : x.client # c}
    BY <2>2, <2>3, <2>4, WithoutIs
  <2>6. r = Append(w, lru[p]) BY <1>1, <1>3, <2>1, <2>3 DEF Documents!Touch
  <2>7. /\ r \in Seq(E) /\ Single(r) /\ Len(r) = Len(w) + 1
        /\ ToSet(r) = ToSet(w) \cup {lru[p]}
    BY <2>2, <2>4, <2>5, <2>6, AppendIs
  <2>8. \A x \in ToSet(lru) : x.client = c => x = lru[p] BY <2>2 DEF ToSet, Single
  <2>9. ToSet(r) = ToSet(lru) BY <2>4, <2>5, <2>7, <2>8
  <2>10. Len(r) = Len(lru) BY <2>5, <2>7
  <2>11. QED BY <1>1, <2>7, <2>9, <2>10
<1>4. QED BY <1>2, <1>3

-----------------------------------------------------------------------------
(* What the steps of the cache keep.                                       *)

LEMMA DocInit == ASSUME Documents!ClientAssumption PROVE Documents!Init => DocInv
<1>. SUFFICES ASSUME Documents!Init PROVE DocInv OBVIOUS
<1>. USE DEF Documents!Init, Documents!ClientAssumption
<1>1. ToSet(<<>>) = {} BY DEF ToSet
<1>2. DocTypes
  <2>1. gone \in [Clients -> [Versions -> Nat]] OBVIOUS
  <2>2. Single(documents) /\ Single(failures) BY DEF Single
  <2>3. documents \in Seq(DocRec) /\ failures \in Seq(FailRec) /\ Len(documents) = 0 /\ Len(failures) = 0
    BY EmptySeq
  <2>4. QED BY <2>1, <2>2, <2>3 DEF DocTypes
<1>3. Aging /\ Reading /\ Fetching /\ Graced /\ Unrefused
  BY <1>1 DEF Aging, Reading, Fetching, Graced, Unrefused
<1>4. QED BY <1>2, <1>3 DEF DocInv

LEMMA AgedIs ==
  ASSUME NEW e \in DocRec
  PROVE  /\ Documents!Aged(e) \in DocRec
         /\ Documents!Aged(e).client = e.client /\ Documents!Aged(e).version = e.version
         /\ Documents!Aged(e).left = Documents!Less(e.left)
         /\ Documents!Aged(e).stale = Documents!Less(e.stale)
<1>1. Documents!Less(e.left) \in Nat /\ Documents!Less(e.stale) \in Nat
  BY DEF DocRec, Documents!Less
<1>2. PICK l, t : l = Documents!Less(e.left) /\ t = Documents!Less(e.stale) OBVIOUS
<1>3. PICK y : y = [e EXCEPT !.left = l, !.stale = t] OBVIOUS
<1>4. Documents!Aged(e) = y BY <1>2, <1>3 DEF Documents!Aged
<1>5. y \in DocRec /\ y.client = e.client /\ y.version = e.version /\ y.left = l /\ y.stale = t
  BY <1>1, <1>2, <1>3 DEF DocRec
<1>6. QED BY <1>2, <1>4, <1>5

LEMMA WanedIs ==
  ASSUME NEW f \in FailRec
  PROVE  /\ Documents!Waned(f) \in FailRec /\ Documents!Waned(f).client = f.client
         /\ Documents!Waned(f).left = Documents!Less(f.left)
<1>1. Documents!Less(f.left) \in Nat BY DEF FailRec, Documents!Less
<1>2. Documents!Waned(f) = [client |-> f.client, left |-> Documents!Less(f.left)]
  BY DEF FailRec, Documents!Waned
<1>3. QED BY <1>1, <1>2 DEF FailRec

\* A queue whose entries age in place.
LEMMA InPlace ==
  ASSUME NEW E, NEW q \in Seq(E), NEW r, DOMAIN r = DOMAIN q, r \in [DOMAIN q -> E]
  PROVE  r \in Seq(E) /\ Len(r) = Len(q)
<1>1. Len(q) \in Nat /\ DOMAIN q = 1..Len(q) OBVIOUS
<1>2. r \in [1..Len(q) -> E] BY <1>1
<1>3. r \in Seq(E) BY <1>1, <1>2
<1>4. QED BY <1>1, <1>2, <1>3

LEMMA TickDocuments ==
  ASSUME Documents!ClientAssumption, DocInv, Documents!Tick
  PROVE  /\ documents' \in Seq(DocRec) /\ Len(documents') <= MaxEntries /\ Single(documents')
         /\ \A e \in ToSet(documents') : \E d \in ToSet(documents) :
              d \in DocRec /\ e = Documents!Aged(d)
         /\ \A d \in ToSet(documents) : d \in DocRec /\ Documents!Aged(d) \in ToSet(documents')
<1>. USE DEF DocInv, DocTypes
<1>1. documents' = [i \in DOMAIN documents |-> Documents!Aged(documents[i])]
  BY DEF Documents!Tick
<1>2. \A i \in DOMAIN documents : documents[i] \in DocRec OBVIOUS
<1>3. documents' \in [DOMAIN documents -> DocRec] BY <1>1, <1>2, AgedIs
<1>4. DOMAIN documents' = DOMAIN documents BY <1>1
<1>5. documents' \in Seq(DocRec) /\ Len(documents') = Len(documents) BY <1>3, <1>4, InPlace
<1>6. \A i \in DOMAIN documents : documents'[i].client = documents[i].client
  BY <1>1, <1>2, AgedIs
<1>7. Single(documents') BY <1>4, <1>6 DEF Single
<1>8. QED BY <1>1, <1>2, <1>4, <1>5, <1>7 DEF ToSet

LEMMA TickFailures ==
  ASSUME Documents!ClientAssumption, DocInv, Documents!Tick
  PROVE  /\ failures' \in Seq(FailRec) /\ Len(failures') <= MaxEntries /\ Single(failures')
         /\ \A f \in ToSet(failures') : \E g \in ToSet(failures) :
              g \in FailRec /\ f = Documents!Waned(g)
<1>. USE DEF DocInv, DocTypes
<1>1. failures' = [i \in DOMAIN failures |-> Documents!Waned(failures[i])]
  BY DEF Documents!Tick
<1>2. \A i \in DOMAIN failures : failures[i] \in FailRec OBVIOUS
<1>3. failures' \in [DOMAIN failures -> FailRec] BY <1>1, <1>2, WanedIs
<1>4. DOMAIN failures' = DOMAIN failures BY <1>1
<1>5. failures' \in Seq(FailRec) /\ Len(failures') = Len(failures) BY <1>3, <1>4, InPlace
<1>6. \A i \in DOMAIN failures : failures'[i].client = failures[i].client
  BY <1>1, <1>2, WanedIs
<1>7. Single(failures') BY <1>4, <1>6 DEF Single
<1>8. QED BY <1>1, <1>2, <1>4, <1>5, <1>7 DEF ToSet

LEMMA RunIs ==
  ASSUME NEW f \in FetchRec, f.age < FetchTimeout, FetchTimeout \in Nat
  PROVE  [f EXCEPT !.age = @ + 1] \in FetchRec /\ [f EXCEPT !.age = @ + 1].read = f.read
         /\ [f EXCEPT !.age = @ + 1].age = f.age + 1
<1>1. f.age + 1 \in 0..FetchTimeout BY DEF FetchRec
<1>2. [f EXCEPT !.age = @ + 1] = [age |-> f.age + 1, read |-> f.read] BY DEF FetchRec
<1>3. QED BY <1>1, <1>2 DEF FetchRec

LEMMA DocTickStep ==
  ASSUME Documents!ClientAssumption, DocInv, Documents!Tick
  PROVE  DocInv'
<1>. USE DEF DocInv
<1>1. /\ published' = published
      /\ \A c \in Clients : task[c] # None => task[c].age < FetchTimeout
      /\ gone' = [c \in Clients |-> [v \in Versions |->
                    IF v = published[c] THEN 0 ELSE Documents!Older(gone[c][v])]]
      /\ task' = [c \in Clients |-> Documents!Run(task[c])]
      /\ loaded' = [c \in Clients |-> IF loaded[c] = None THEN None ELSE Documents!Older(loaded[c])]
  BY DEF Documents!Tick
<1>2. \A c \in Clients : \A v \in Versions : gone'[c][v] \in Nat /\ gone'[c][v] <= gone[c][v] + 1
  BY <1>1 DEF DocTypes, Documents!Older
<1>3. gone' \in [Clients -> [Versions -> Nat]] BY <1>1 DEF DocTypes, Documents!Older
<1>4. \A c \in Clients : task[c] = None => task'[c] = None BY <1>1 DEF Documents!Run
<1>5. \A c \in Clients : task[c] # None =>
        task'[c] \in FetchRec /\ task'[c].age = task[c].age + 1 /\ task'[c].read = task[c].read
  <2>1. ASSUME NEW c \in Clients, task[c] # None
        PROVE  task'[c] \in FetchRec /\ task'[c].age = task[c].age + 1 /\ task'[c].read = task[c].read
    <3>1. PICK f \in FetchRec : f = task[c] /\ f.age < FetchTimeout /\ f # None
      BY <1>1, <2>1 DEF DocTypes
    <3>2. task'[c] = [f EXCEPT !.age = @ + 1] BY <1>1, <3>1 DEF Documents!Run
    <3>3. QED BY <3>1, <3>2, RunIs DEF Documents!ClientAssumption
  <2>2. QED BY <2>1
<1>6. \A c \in Clients :
        /\ loaded[c] = None => loaded'[c] = None
        /\ loaded'[c] # None => loaded[c] # None /\ loaded[c] \in Nat
             /\ loaded'[c] = (IF loaded[c] < Horizon THEN loaded[c] + 1 ELSE loaded[c])
  BY <1>1 DEF DocTypes, Documents!Older
<1>7. DocTypes'
  <2>1. task' \in [Clients -> FetchRec \cup {None}] BY <1>1, <1>4, <1>5
  <2>2. loaded' \in [Clients -> Nat \cup {None}] BY <1>1, <1>6 DEF DocTypes, Documents!Older
  <2>3. published' \in [Clients -> Versions] BY <1>1 DEF DocTypes
  <2>4. QED BY <1>3, <2>1, <2>2, <2>3, TickDocuments, TickFailures DEF DocTypes
<1>8. \A d \in DocRec : /\ Documents!Aged(d).left = (IF d.left > 0 THEN d.left - 1 ELSE d.left)
                        /\ Documents!Aged(d).stale = (IF d.stale > 0 THEN d.stale - 1 ELSE d.stale)
                        /\ Documents!Aged(d).client = d.client
                        /\ Documents!Aged(d).version = d.version
  BY AgedIs DEF Documents!Less, DocRec
<1>9. Aging'
  <2>1. ASSUME NEW e \in ToSet(documents')
        PROVE  /\ e.left <= e.stale
               /\ e.stale > 0 =>
                    gone'[e.client][e.version] + e.stale <= DocumentTTL + MaxStale + FetchTimeout
    <3>1. PICK d \in ToSet(documents) : d \in DocRec /\ e = Documents!Aged(d) BY TickDocuments
    <3>2. /\ d.left <= d.stale
          /\ d.stale > 0 => gone[d.client][d.version] + d.stale <= DocumentTTL + MaxStale + FetchTimeout
      BY DEF Aging
    <3>3. d.left \in Nat /\ d.stale \in Nat /\ d.client \in Clients /\ d.version \in Versions
      BY <3>1 DEF DocRec
    <3>4. gone[d.client][d.version] \in Nat BY <3>3 DEF DocTypes
    <3>5. e.left <= e.stale BY <1>8, <3>1, <3>2, <3>3
    <3>6. DocumentTTL + MaxStale + FetchTimeout \in Nat BY DEF Documents!ClientAssumption
    <3>7. gone'[d.client][d.version] \in Nat /\ gone'[d.client][d.version] <= gone[d.client][d.version] + 1
      BY <1>2, <3>3
    <3>8. QED BY <1>8, <3>1, <3>2, <3>3, <3>4, <3>5, <3>6, <3>7
  <2>2. QED BY <2>1 DEF Aging, ToSet
<1>10. Reading'
  <2>1. ASSUME NEW c \in Clients, task'[c] # None, task'[c].read # None
        PROVE  gone'[c][task'[c].read] <= task'[c].age
    <3>1. task[c] # None /\ task'[c].age = task[c].age + 1 /\ task'[c].read = task[c].read
      BY <1>4, <1>5, <2>1
    <3>2. task[c].read \in Versions /\ task[c].age \in Nat
      BY <2>1, <3>1 DEF DocTypes, FetchRec
    <3>3. gone[c][task[c].read] <= task[c].age BY <2>1, <3>1 DEF Reading
    <3>4. gone[c][task[c].read] \in Nat BY <3>2 DEF DocTypes
    <3>5. QED BY <1>2, <3>1, <3>2, <3>3, <3>4
  <2>2. \A c \in Clients : gone'[c][published'[c]] = 0 BY <1>1 DEF DocTypes
  <2>3. QED BY <2>1, <2>2 DEF Reading
<1>11. \A c \in Clients : Documents!Live(failures', c) => Documents!Live(failures, c)
  <2>1. ASSUME NEW c \in Clients, NEW f \in ToSet(failures'), f.client = c, f.left > 0
        PROVE  \E g \in ToSet(failures) : g.client = c /\ g.left > 0
    <3>1. PICK g \in ToSet(failures) : g \in FailRec /\ f = Documents!Waned(g) BY TickFailures
    <3>2. g.client = f.client /\ f.left = Documents!Less(g.left) BY <3>1, WanedIs
    <3>3. QED BY <2>1, <3>1, <3>2 DEF FailRec, Documents!Less
  <2>2. QED BY <2>1, EntriesAre
<1>12. Fetching'
  <2>1. ASSUME NEW c \in Clients, task'[c] # None, NEW e \in ToSet(documents'), e.client = c, e.left > 0
        PROVE  FALSE
    <3>1. PICK d \in ToSet(documents) : d \in DocRec /\ e = Documents!Aged(d) BY TickDocuments
    <3>2. d.client = c /\ d.left > 0 BY <1>8, <2>1, <3>1 DEF DocRec
    <3>3. Documents!Live(documents, c) BY <3>2, EntriesAre
    <3>4. QED BY <1>4, <2>1, <3>3 DEF Fetching
  <2>2. \A c \in Clients : task'[c] # None => ~Documents!Live(documents', c) BY <2>1, EntriesAre
  <2>3. \A c \in Clients : task'[c] # None => ~Documents!Live(failures', c)
    BY <1>4, <1>11 DEF Fetching
  <2>4. \A c \in Clients : /\ Documents!Live(documents, c)' = Documents!Live(documents', c)
                           /\ Documents!Live(failures, c)' = Documents!Live(failures', c)
    BY DEF Documents!Live, Documents!Entries, Documents!Range
  <2>5. QED BY <2>2, <2>3, <2>4 DEF Fetching
<1>13. DocumentTTL + MaxStale \in Nat /\ Horizon \in Nat /\ Horizon > DocumentTTL + MaxStale
  BY DEF Documents!ClientAssumption
<1>14. Graced'
  <2>1. ASSUME NEW c \in Clients, loaded'[c] # None, loaded'[c] < DocumentTTL + MaxStale
        PROVE  \E e \in ToSet(documents') : e.client = c /\ loaded'[c] + e.stale >= DocumentTTL + MaxStale
    <3>1. /\ loaded[c] # None /\ loaded[c] \in Nat /\ loaded'[c] = loaded[c] + 1
          /\ loaded[c] < DocumentTTL + MaxStale
      BY <1>6, <1>13, <2>1
    <3>2. PICK d \in ToSet(documents) : d.client = c /\ loaded[c] + d.stale >= DocumentTTL + MaxStale
      BY <3>1 DEF Graced
    <3>3. d \in DocRec /\ Documents!Aged(d) \in ToSet(documents') BY TickDocuments
    <3>4. d.stale \in Nat BY <3>3 DEF DocRec
    <3>5. Documents!Aged(d).client = c
          /\ loaded'[c] + Documents!Aged(d).stale >= DocumentTTL + MaxStale
      BY <1>8, <1>13, <3>1, <3>2, <3>3, <3>4
    <3>6. QED BY <3>3, <3>5
  <2>2. QED BY <2>1 DEF Graced, ToSet
<1>15. Unrefused'
  <2>1. ASSUME NEW c \in Clients, loaded'[c] # None, Documents!Live(failures', c)
        PROVE  loaded'[c] >= DocumentTTL + MaxStale
    <3>1. loaded[c] >= DocumentTTL + MaxStale BY <1>6, <1>11, <2>1 DEF Unrefused
    <3>2. QED BY <1>6, <1>13, <2>1, <3>1
  <2>2. \A c \in Clients : Documents!Live(failures, c)' = Documents!Live(failures', c)
    BY DEF Documents!Live, Documents!Entries, Documents!Range
  <2>3. QED BY <2>1, <2>2 DEF Unrefused
<1>16. QED BY <1>7, <1>9, <1>10, <1>12, <1>14, <1>15

\* The same entries make the same clients live.
LEMMA SameEntries ==
  ASSUME NEW q, NEW r, ToSet(q) = ToSet(r), NEW c
  PROVE  Documents!Live(q, c) <=> Documents!Live(r, c)
BY EntriesAre

LEMMA PrimedLive ==
  \A c \in Clients : /\ Documents!Live(documents, c)' = Documents!Live(documents', c)
                     /\ Documents!Live(failures, c)' = Documents!Live(failures', c)
BY DEF Documents!Live, Documents!Entries, Documents!Range

LEMMA PublishStep ==
  ASSUME Documents!ClientAssumption, DocInv, NEW c \in Clients, NEW v \in Versions,
         Documents!Publish(c, v)
  PROVE  DocInv'
<1>. USE DEF DocInv
<1>1. /\ published' = [published EXCEPT ![c] = v] /\ gone' = [gone EXCEPT ![c][v] = 0]
      /\ UNCHANGED <<documents, failures, task, loaded>>
  BY DEF Documents!Publish
<1>2. /\ gone' \in [Clients -> [Versions -> Nat]]
      /\ \A d \in Clients : \A w \in Versions : gone'[d][w] <= gone[d][w]
  <2>1. PICK row \in [Versions -> Nat] : row = gone[c] BY DEF DocTypes
  <2>2. PICK new : new = [row EXCEPT ![v] = 0] OBVIOUS
  <2>3. gone' = [gone EXCEPT ![c] = new] BY <1>1, <2>1, <2>2
  <2>4. new \in [Versions -> Nat] /\ \A w \in Versions : new[w] <= row[w] BY <2>2
  <2>5. QED BY <2>1, <2>3, <2>4 DEF DocTypes
<1>3. DocTypes' BY <1>1, <1>2 DEF DocTypes, Single
<1>4. Aging'
  <2>1. ASSUME NEW e \in ToSet(documents)
        PROVE  /\ e.left <= e.stale
               /\ e.stale > 0 =>
                    gone'[e.client][e.version] + e.stale <= DocumentTTL + MaxStale + FetchTimeout
    <3>1. e \in DocRec BY DEF ToSet, DocTypes
    <3>2. /\ e.client \in Clients /\ e.version \in Versions /\ e.stale \in Nat
          /\ gone[e.client][e.version] \in Nat /\ gone'[e.client][e.version] \in Nat
      BY <1>2, <3>1 DEF DocRec, DocTypes
    <3>3. DocumentTTL + MaxStale + FetchTimeout \in Nat BY DEF Documents!ClientAssumption
    <3>4. /\ e.left <= e.stale
          /\ e.stale > 0 => gone[e.client][e.version] + e.stale <= DocumentTTL + MaxStale + FetchTimeout
      BY DEF Aging
    <3>5. gone'[e.client][e.version] <= gone[e.client][e.version] BY <1>2, <3>2
    <3>6. QED BY <3>2, <3>3, <3>4, <3>5
  <2>2. QED BY <1>1, <2>1 DEF Aging, ToSet
<1>5. Reading'
  <2>1. ASSUME NEW d \in Clients, task[d] # None, task[d].read # None
        PROVE  gone'[d][task[d].read] <= task[d].age
    <3>1. task[d].read \in Versions /\ task[d].age \in Nat BY <2>1 DEF DocTypes, FetchRec
    <3>2. gone[d][task[d].read] <= task[d].age BY <2>1 DEF Reading
    <3>3. gone'[d][task[d].read] \in Nat /\ gone[d][task[d].read] \in Nat
      BY <1>2, <3>1 DEF DocTypes
    <3>4. QED BY <1>2, <3>1, <3>2, <3>3
  <2>2. ASSUME NEW d \in Clients PROVE gone'[d][published'[d]] = 0
    <3>1. CASE d = c
      <4>1. published'[d] = v BY <1>1, <3>1 DEF DocTypes
      <4>2. gone'[d][v] = 0 BY <1>1, <3>1 DEF DocTypes
      <4>3. QED BY <4>1, <4>2
    <3>2. CASE d # c
      <4>1. published'[d] = published[d] /\ published[d] \in Versions BY <1>1, <3>2 DEF DocTypes
      <4>2. gone'[d] = gone[d] BY <1>1, <3>2 DEF DocTypes
      <4>3. QED BY <4>1, <4>2 DEF Reading
    <3>3. QED BY <3>1, <3>2
  <2>3. QED BY <1>1, <2>1, <2>2 DEF Reading
<1>6. Fetching' /\ Unrefused' BY <1>1, PrimedLive DEF Fetching, Unrefused
<1>7. Graced' BY <1>1 DEF Graced, ToSet
<1>8. QED BY <1>3, <1>4, <1>5, <1>6, <1>7

LEMMA GetStep ==
  ASSUME Documents!ClientAssumption, DocInv, NEW c \in Clients, Documents!Get(c)
  PROVE  DocInv'
<1>. USE DEF DocInv
<1>1. UNCHANGED <<published, gone, loaded>> BY DEF Documents!Get
<1>2. /\ documents' \in Seq(DocRec) /\ Single(documents') /\ Len(documents') <= MaxEntries
      /\ ToSet(documents') = ToSet(documents)
      /\ failures' \in Seq(FailRec) /\ Single(failures') /\ Len(failures') <= MaxEntries
      /\ ToSet(failures') = ToSet(failures)
  <2>1. documents' = documents \/ documents' = Documents!Touch(documents, c)
    BY DEF Documents!Get
  <2>2. failures' = failures \/ failures' = Documents!Touch(failures, c)
    BY DEF Documents!Get
  <2>3. /\ documents \in Seq(DocRec) /\ Single(documents) /\ Len(documents) <= MaxEntries
        /\ failures \in Seq(FailRec) /\ Single(failures) /\ Len(failures) <= MaxEntries
    BY DEF DocTypes
  <2>4. /\ Documents!Touch(documents, c) \in Seq(DocRec) /\ Single(Documents!Touch(documents, c))
        /\ Len(Documents!Touch(documents, c)) = Len(documents)
        /\ ToSet(Documents!Touch(documents, c)) = ToSet(documents)
    BY <2>3, TouchIs
  <2>5. /\ Documents!Touch(failures, c) \in Seq(FailRec) /\ Single(Documents!Touch(failures, c))
        /\ Len(Documents!Touch(failures, c)) = Len(failures)
        /\ ToSet(Documents!Touch(failures, c)) = ToSet(failures)
    BY <2>3, TouchIs
  <2>6. QED BY <2>1, <2>2, <2>3, <2>4, <2>5
<1>3. /\ task' = task \/ (/\ task' = [task EXCEPT ![c] = [age |-> 0, read |-> None]]
                          /\ ~Documents!Live(documents, c) /\ ~Documents!Live(failures, c))
  BY DEF Documents!Get
<1>4. \A d \in Clients :
        \/ task'[d] = task[d]
        \/ /\ task'[d] = [age |-> 0, read |-> None]
           /\ ~Documents!Live(documents, d) /\ ~Documents!Live(failures, d)
  BY <1>3 DEF DocTypes
<1>5. /\ [age |-> 0, read |-> None] \in FetchRec /\ [age |-> 0, read |-> None].read = None
  BY DEF FetchRec, Documents!ClientAssumption
<1>6. DocTypes' BY <1>1, <1>2, <1>3, <1>5 DEF DocTypes
<1>7. Aging' BY <1>1, <1>2 DEF Aging, ToSet
<1>8. Reading' BY <1>1, <1>4, <1>5 DEF Reading
<1>9. \A d \in Clients : /\ Documents!Live(documents, d)' = Documents!Live(documents, d)
                         /\ Documents!Live(failures, d)' = Documents!Live(failures, d)
  BY <1>2, PrimedLive, EntriesAre
<1>10. Fetching' BY <1>4, <1>9 DEF Fetching
<1>11. Graced' BY <1>1, <1>2 DEF Graced, ToSet
<1>12. Unrefused' BY <1>1, <1>9 DEF Unrefused
<1>13. QED BY <1>6, <1>7, <1>8, <1>10, <1>11, <1>12

LEMMA AnswersStep ==
  ASSUME Documents!ClientAssumption, DocInv, NEW c \in Clients, Documents!Answers(c)
  PROVE  DocInv'
<1>. USE DEF DocInv
<1>1. UNCHANGED <<published, gone, documents, failures, loaded>> /\ task[c] # None
  BY DEF Documents!Answers
<1>2. PICK z \in FetchRec : z = task[c] BY <1>1 DEF DocTypes
<1>3. PICK y : y = [z EXCEPT !.read = published[c]] OBVIOUS
<1>4. task' = [task EXCEPT ![c] = y] BY <1>2, <1>3 DEF Documents!Answers
<1>5. y \in FetchRec /\ y.read = published[c] /\ y.age = z.age /\ published[c] \in Versions
  BY <1>3 DEF FetchRec, DocTypes
<1>6. task'[c] = y /\ \A d \in Clients \ {c} : task'[d] = task[d] BY <1>4 DEF DocTypes
<1>7. DocTypes' BY <1>1, <1>4, <1>5 DEF DocTypes
<1>8. Fetching' /\ Unrefused' BY <1>1, <1>6, PrimedLive DEF Fetching, Unrefused
<1>9. Aging' /\ Graced' BY <1>1 DEF Aging, Graced, ToSet
<1>10. Reading'
  <2>1. ASSUME NEW d \in Clients, task'[d] # None, task'[d].read # None
        PROVE  gone[d][task'[d].read] <= task'[d].age
    <3>1. CASE d = c
      <4>1. gone[c][published[c]] = 0 /\ y.age \in Nat BY <1>5 DEF Reading, FetchRec
      <4>2. QED BY <1>5, <1>6, <3>1, <4>1
    <3>2. CASE d # c BY <1>6, <2>1, <3>2 DEF Reading
    <3>3. QED BY <3>1, <3>2
  <2>2. QED BY <1>1, <2>1 DEF Reading
<1>11. QED BY <1>7, <1>8, <1>9, <1>10

LEMMA LoadsStep ==
  ASSUME Documents!ClientAssumption, DocInv, NEW c \in Clients, Documents!Loads(c)
  PROVE  DocInv'
<1>. USE DEF DocInv
<1>1. /\ UNCHANGED <<published, gone, failures>> /\ task[c] # None /\ task[c].read # None
      /\ documents' = Documents!Put(documents, Documents!Kept(c, task[c].read))
      /\ loaded' = [Documents!Evicts(documents') EXCEPT ![c] = 0]
      /\ task' = [task EXCEPT ![c] = None]
  BY DEF Documents!Loads
<1>2. /\ task[c].read \in Versions /\ gone[c][task[c].read] \in Nat
      /\ gone[c][task[c].read] <= FetchTimeout
  <2>1. task[c] \in FetchRec BY <1>1 DEF DocTypes
  <2>2. task[c].read \in Versions /\ task[c].age \in 0..FetchTimeout BY <1>1, <2>1 DEF FetchRec
  <2>3. gone[c][task[c].read] <= task[c].age BY <1>1 DEF Reading
  <2>4. gone[c][task[c].read] \in Nat /\ FetchTimeout \in Nat
    BY <2>2 DEF DocTypes, Documents!ClientAssumption
  <2>5. QED BY <2>2, <2>3, <2>4
<1>3. /\ DocumentTTL \in Nat /\ MaxStale \in Nat /\ FetchTimeout \in Nat /\ MaxEntries \in Nat \ {0}
  BY DEF Documents!ClientAssumption
<1>4. PICK new : new = Documents!Kept(c, task[c].read) OBVIOUS
<1>5. /\ new \in DocRec /\ new.client = c /\ new.version = task[c].read
      /\ new.left = DocumentTTL /\ new.stale = DocumentTTL + MaxStale
  BY <1>2, <1>3, <1>4 DEF Documents!Kept, DocRec
<1>6. /\ documents' \in Seq(DocRec) /\ Single(documents') /\ Len(documents') <= MaxEntries
      /\ new \in ToSet(documents')
      /\ \A x \in ToSet(documents') : x = new \/ (x \in ToSet(documents) /\ x.client # c)
  <2>1. documents \in Seq(DocRec) /\ Single(documents) /\ Len(documents) <= MaxEntries
    BY DEF DocTypes
  <2>2. QED BY <1>1, <1>3, <1>4, <1>5, <2>1, PutIs
<1>7. loaded' \in [Clients -> Nat \cup {None}] /\ loaded'[c] = 0
      /\ \A d \in Clients \ {c} : loaded'[d] # None =>
           loaded'[d] = loaded[d] /\ \E x \in ToSet(documents') : x.client = d
  <2>1. PICK ev : ev = Documents!Evicts(documents') OBVIOUS
  <2>2. ev = [x \in Clients |-> IF Documents!Entries(documents', x) = {} THEN None ELSE loaded[x]]
    BY <2>1 DEF Documents!Evicts
  <2>3. ev \in [Clients -> Nat \cup {None}] BY <2>2 DEF DocTypes
  <2>4. loaded' = [ev EXCEPT ![c] = 0] BY <1>1, <2>1
  <2>5. \A d \in Clients : ev[d] # None =>
          ev[d] = loaded[d] /\ \E x \in ToSet(documents') : x.client = d
    BY <2>2, EntriesAre
  <2>6. QED BY <2>3, <2>4, <2>5
<1>8. task'[c] = None /\ \A d \in Clients \ {c} : task'[d] = task[d] BY <1>1 DEF DocTypes
<1>9. DocTypes' BY <1>1, <1>6, <1>7 DEF DocTypes
<1>10. Aging'
  <2>1. gone[c][new.version] + new.stale <= DocumentTTL + MaxStale + FetchTimeout
    BY <1>2, <1>3, <1>5
  <2>2. new.left <= new.stale BY <1>3, <1>5
  <2>3. QED BY <1>1, <1>5, <1>6, <2>1, <2>2 DEF Aging, ToSet
<1>11. Reading' BY <1>1, <1>8 DEF Reading
<1>12. Fetching'
  <2>1. ASSUME NEW d \in Clients, d # c, Documents!Live(documents', d) PROVE Documents!Live(documents, d)
    BY <1>5, <1>6, <2>1, EntriesAre
  <2>2. QED BY <1>1, <1>8, <2>1, PrimedLive DEF Fetching
<1>13. Graced'
  <2>1. ASSUME NEW d \in Clients, loaded'[d] # None, loaded'[d] < DocumentTTL + MaxStale
        PROVE  \E e \in ToSet(documents') : e.client = d /\ loaded'[d] + e.stale >= DocumentTTL + MaxStale
    <3>1. CASE d = c
      <4>1. new.client = d /\ loaded'[d] + new.stale >= DocumentTTL + MaxStale BY <1>3, <1>5, <1>7, <3>1
      <4>2. QED BY <1>6, <4>1
    <3>2. CASE d # c
      <4>1. loaded'[d] = loaded[d] /\ \E x \in ToSet(documents') : x.client = d BY <1>7, <2>1, <3>2
      <4>2. PICK x \in ToSet(documents') : x.client = d BY <4>1
      <4>3. x \in ToSet(documents) BY <1>5, <1>6, <3>2, <4>2
      <4>4. PICK e \in ToSet(documents) : e.client = d /\ loaded[d] + e.stale >= DocumentTTL + MaxStale
        BY <2>1, <4>1 DEF Graced
      <4>5. e = x BY <4>2, <4>3, <4>4 DEF DocTypes, Single, ToSet
      <4>6. QED BY <4>1, <4>2, <4>4, <4>5
    <3>3. QED BY <3>1, <3>2
  <2>2. QED BY <2>1 DEF Graced, ToSet
<1>14. Unrefused'
  <2>1. ~Documents!Live(failures, c) BY <1>1 DEF Fetching
  <2>2. \A d \in Clients : Documents!Live(failures, d)' = Documents!Live(failures, d)
    BY <1>1, PrimedLive
  <2>3. QED BY <1>7, <2>1, <2>2 DEF Unrefused
<1>15. QED BY <1>9, <1>10, <1>11, <1>12, <1>13, <1>14

\* What stands in for a failed fetch keeps its limit.
LEMMA StandIn ==
  ASSUME Documents!ClientAssumption, NEW e \in DocRec, e.stale > 0,
         NEW y, y = [e EXCEPT !.left = Documents!Min({FailureTTL, e.stale})]
  PROVE  /\ y \in DocRec /\ y.client = e.client /\ y.version = e.version
         /\ y.stale = e.stale /\ y.left <= e.stale
<1>1. FailureTTL \in Nat /\ e.stale \in Nat BY DEF Documents!ClientAssumption, DocRec
<1>2. PICK m : m = Documents!Min({FailureTTL, e.stale}) OBVIOUS
<1>3. \E x \in {FailureTTL, e.stale} : \A z \in {FailureTTL, e.stale} : x <= z BY <1>1
<1>4. m \in {FailureTTL, e.stale} /\ m <= e.stale BY <1>2, <1>3 DEF Documents!Min
<1>5. y = [e EXCEPT !.left = m] /\ m \in Nat BY <1>1, <1>2, <1>4
<1>6. QED BY <1>4, <1>5 DEF DocRec

LEMMA FailsStep ==
  ASSUME Documents!ClientAssumption, DocInv, NEW c \in Clients, Documents!Fails(c)
  PROVE  DocInv'
<1>. USE DEF DocInv
<1>1. UNCHANGED <<published, gone, loaded>> /\ task[c] # None /\ task' = [task EXCEPT ![c] = None]
  BY DEF Documents!Fails
<1>2. task'[c] = None /\ \A d \in Clients \ {c} : task'[d] = task[d] BY <1>1 DEF DocTypes
<1>3. /\ documents \in Seq(DocRec) /\ Single(documents) /\ Len(documents) <= MaxEntries
      /\ failures \in Seq(FailRec) /\ Single(failures) /\ Len(failures) <= MaxEntries
      /\ MaxEntries \in Nat \ {0} /\ DocumentTTL + MaxStale \in Nat
  BY DEF DocTypes, Documents!ClientAssumption
<1>4. Reading' BY <1>1, <1>2 DEF Reading
<1>5. CASE \E e \in Documents!Entries(documents, c) : e.stale > 0
  <2>1. PICK e \in Documents!Entries(documents, c) :
          documents' = Documents!Put(documents, [e EXCEPT !.left = Documents!Min({FailureTTL, e.stale})])
    BY <1>5 DEF Documents!Fails
  <2>2. failures' = failures BY <1>5 DEF Documents!Fails
  <2>3. e \in ToSet(documents) /\ e.client = c /\ e \in DocRec BY <1>3, EntriesAre DEF ToSet
  <2>4. e.stale > 0 BY <1>3, <1>5, <2>3, EntriesAre DEF Single, ToSet
  <2>5. PICK y : y = [e EXCEPT !.left = Documents!Min({FailureTTL, e.stale})] OBVIOUS
  <2>6. /\ y \in DocRec /\ y.client = c /\ y.version = e.version
        /\ y.stale = e.stale /\ y.left <= e.stale
    BY <2>3, <2>4, <2>5, StandIn
  <2>7. /\ documents' \in Seq(DocRec) /\ Single(documents') /\ Len(documents') <= MaxEntries
        /\ y \in ToSet(documents')
        /\ \A x \in ToSet(documents') : x = y \/ (x \in ToSet(documents) /\ x.client # c)
        /\ \A x \in ToSet(documents) : x.client # c => x \in ToSet(documents')
    <3>1. documents' = Documents!Put(documents, y) BY <2>1, <2>5
    <3>2. \E x \in ToSet(documents) : x.client = y.client BY <2>3, <2>6
    <3>3. y \in DocRec BY <2>6
    <3>4. /\ documents' \in Seq(DocRec) /\ Single(documents') /\ Len(documents') <= MaxEntries
          /\ y \in ToSet(documents')
          /\ \A x \in ToSet(documents') : x = y \/ (x \in ToSet(documents) /\ x.client # y.client)
          /\ \A x \in ToSet(documents) : x.client # y.client => x \in ToSet(documents')
      BY <1>3, <3>1, <3>2, <3>3, PutIs
    <3>5. QED BY <2>6, <3>4
  <2>8. DocTypes' BY <1>1, <1>3, <2>2, <2>7 DEF DocTypes
  <2>9. Aging' BY <1>1, <2>3, <2>6, <2>7 DEF Aging, ToSet
  <2>10. Fetching'
    <3>1. ASSUME NEW d \in Clients, d # c, Documents!Live(documents', d) PROVE Documents!Live(documents, d)
      BY <2>6, <2>7, <3>1, EntriesAre
    <3>2. QED BY <1>2, <2>2, <3>1, PrimedLive DEF Fetching
  <2>11. Graced'
    <3>1. ASSUME NEW d \in Clients, loaded[d] # None, loaded[d] < DocumentTTL + MaxStale
          PROVE  \E x \in ToSet(documents') : x.client = d /\ loaded[d] + x.stale >= DocumentTTL + MaxStale
      <4>1. PICK x \in ToSet(documents) : x.client = d /\ loaded[d] + x.stale >= DocumentTTL + MaxStale
        BY <3>1 DEF Graced
      <4>2. CASE d = c
        <5>1. x = e BY <1>3, <2>3, <4>1, <4>2 DEF Single, ToSet
        <5>2. QED BY <2>6, <2>7, <4>1, <4>2, <5>1
      <4>3. CASE d # c BY <2>7, <4>1, <4>3
      <4>4. QED BY <4>2, <4>3
    <3>2. QED BY <1>1, <3>1 DEF Graced, ToSet
  <2>12. Unrefused' BY <1>1, <2>2, PrimedLive DEF Unrefused
  <2>13. QED BY <1>4, <2>8, <2>9, <2>10, <2>11, <2>12
<1>6. CASE ~\E e \in Documents!Entries(documents, c) : e.stale > 0
  <2>1. PICK f : f = [client |-> c, left |-> FailureTTL] OBVIOUS
  <2>2. failures' = Documents!Put(failures, f) /\ documents' = Documents!Touch(documents, c)
    BY <1>6, <2>1 DEF Documents!Fails
  <2>3. f \in FailRec /\ f.client = c BY <2>1 DEF FailRec, Documents!ClientAssumption
  <2>4. /\ documents' \in Seq(DocRec) /\ Single(documents') /\ Len(documents') = Len(documents)
        /\ ToSet(documents') = ToSet(documents)
    BY <1>3, <2>2, TouchIs
  <2>5. /\ failures' \in Seq(FailRec) /\ Single(failures') /\ Len(failures') <= MaxEntries
        /\ \A x \in ToSet(failures') : x = f \/ (x \in ToSet(failures) /\ x.client # c)
    BY <1>3, <2>2, <2>3, PutIs
  <2>6. DocTypes' BY <1>1, <1>3, <2>4, <2>5 DEF DocTypes
  <2>7. Aging' BY <1>1, <2>4 DEF Aging, ToSet
  <2>8. \A d \in Clients : Documents!Live(documents, d)' = Documents!Live(documents, d)
    BY <2>4, PrimedLive, EntriesAre
  <2>9. \A d \in Clients \ {c} : Documents!Live(failures, d)' => Documents!Live(failures, d)
    BY <2>3, <2>5, PrimedLive, EntriesAre
  <2>10. Fetching' BY <1>2, <2>8, <2>9 DEF Fetching
  <2>11. Graced' BY <1>1, <2>4 DEF Graced, ToSet
  <2>12. Unrefused'
    <3>1. loaded[c] # None => loaded[c] >= DocumentTTL + MaxStale
      <4>1. SUFFICES ASSUME loaded[c] # None, ~(loaded[c] >= DocumentTTL + MaxStale) PROVE FALSE
        OBVIOUS
      <4>2. loaded[c] \in Nat /\ loaded[c] < DocumentTTL + MaxStale BY <1>3, <4>1 DEF DocTypes
      <4>3. PICK e \in ToSet(documents) : e.client = c /\ loaded[c] + e.stale >= DocumentTTL + MaxStale
        BY <4>1, <4>2 DEF Graced
      <4>4. e \in DocRec BY <1>3 DEF ToSet
      <4>7. e.stale \in Nat BY <4>4 DEF DocRec
      <4>5. e.stale > 0 BY <1>3, <4>2, <4>3, <4>7
      <4>6. QED BY <1>6, <4>3, <4>5, EntriesAre
    <3>2. QED BY <1>1, <2>9, <3>1 DEF Unrefused
  <2>13. QED BY <1>4, <2>6, <2>7, <2>10, <2>11, <2>12
<1>7. QED BY <1>5, <1>6

LEMMA DocumentsHold == ASSUME Documents!ClientAssumption PROVE Documents!Spec => []DocInv
<1>1. Documents!Init => DocInv BY DocInit
<1>2. DocInv /\ [Documents!Next]_(Documents!vars) => DocInv'
  <2>. SUFFICES ASSUME DocInv, [Documents!Next]_(Documents!vars) PROVE DocInv' OBVIOUS
  <2>1. CASE UNCHANGED Documents!vars
    <3>1. UNCHANGED <<published, gone, documents, failures, task, loaded>>
      BY <2>1 DEF Documents!vars
    <3>2. DocTypes' /\ Aging' /\ Reading' /\ Graced'
      BY <3>1 DEF DocInv, DocTypes, Single, Aging, Reading, Graced, ToSet
    <3>3. Fetching' /\ Unrefused' BY <3>1, PrimedLive DEF DocInv, Fetching, Unrefused
    <3>4. QED BY <3>2, <3>3 DEF DocInv
  <2>2. CASE Documents!Next
    BY <2>2, DocTickStep, PublishStep, GetStep, AnswersStep, LoadsStep, FailsStep
    DEF Documents!Next
  <2>3. QED BY <2>1, <2>2
<1>3. QED BY <1>1, <1>2, PTL DEF Documents!Spec

LEMMA DocumentsPart == UsageSpec => Documents!Spec
<1>1. UsageInit => Documents!Init BY DEF UsageInit
<1>2. [UsageNext]_usageVars => [Documents!Next]_(Documents!vars)
  BY DEF UsageNext, usageVars, clientVars, Documents!vars
<1>3. QED BY <1>1, <1>2, PTL DEF UsageSpec, Documents!Spec

\* A document of a client that its host no longer publishes ends within its time, the
\* grace and one fetch, and a client is refused for a failure only when no fetch
\* succeeded for as long, or its document made room: for any number of clients and any
\* times and room (features/oauth/client_cache.py: get, _load, _ExpiringLru).
THEOREM ClientsKeepAndEnd == UsageSpec => []ClientsLive
<1>1. Documents!ClientAssumption BY PartsAssumption
<1>2. UsageSpec => []DocInv BY <1>1, DocumentsPart, DocumentsHold, PTL
<1>3. ASSUME DocInv PROVE ClientsLive
  <2>1. ASSUME NEW c \in Clients, NEW e \in Documents!Entries(documents, c), e.left > 0
        PROVE  gone[c][e.version] <= DocumentTTL + MaxStale + FetchTimeout
    <3>1. e \in ToSet(documents) /\ e.client = c BY EntriesAre
    <3>2. e \in DocRec BY <1>3, <3>1 DEF DocInv, DocTypes, ToSet
    <3>3. e.left <= e.stale /\ e.left \in Nat /\ e.stale \in Nat
      BY <1>3, <3>1, <3>2 DEF DocInv, Aging, DocRec
    <3>4. gone[c][e.version] + e.stale <= DocumentTTL + MaxStale + FetchTimeout
      BY <1>3, <2>1, <3>1, <3>3 DEF DocInv, Aging
    <3>5. gone[c][e.version] \in Nat BY <1>3, <3>1, <3>2 DEF DocInv, DocTypes, DocRec
    <3>6. DocumentTTL + MaxStale + FetchTimeout \in Nat BY <1>1 DEF Documents!ClientAssumption
    <3>7. QED BY <3>3, <3>4, <3>5, <3>6
  <2>2. \A c \in Clients : Documents!Live(failures, c) =>
          loaded[c] = None \/ loaded[c] >= DocumentTTL + MaxStale
    BY <1>3 DEF DocInv, Unrefused
  <2>3. QED BY <2>1, <2>2
    DEF ClientsLive, Documents!OldDocumentsEnd, Documents!BlipsRefuseNobody
<1>4. QED BY <1>2, <1>3, PTL
=============================================================================
