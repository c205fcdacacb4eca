------------------------------ MODULE Enricher ------------------------------
(***************************************************************************)
(* The span-enricher job (platform/api/hexgate_api/jobs/enricher/          *)
(* consumer.py): it reads audit spans from a topic, stores the valid ones  *)
(* in one ClickHouse table per kind, parks the others on a dead-letter     *)
(* topic, and commits its offset last.                                     *)
(*                                                                         *)
(* The members of the consumer group are processes that crash, are stopped *)
(* and restarted, and lose the partition to each other in the middle of a  *)
(* poll; inserts fail after some of their blocks landed.  The tables       *)
(* collapse two copies of a row, the usage views count each of them.       *)
(***************************************************************************)
EXTENDS EventDedup, FiniteSets, SequencesExt

CONSTANTS
  Spans,        \* records [project, id, sink]: one tenant's ids are unique
  Sinks,        \* the tables, in the order of _SINKS
  Rejected,     \* the sink of a span that decode, attribution or mapping refuses
  Jobs,         \* consumer processes of the group
  Nobody,       \* the partition is assigned to no member
  Skewed,       \* spans from a producer whose clock runs Ahead
  Ahead,
  RetryHorizon, \* a producer sends a span again within this time
  MaxLag,       \* how far behind the producers the group can be
  MaxNow,       \* bound: time
  MaxCopies,    \* bound: records of one span
  MaxRecords,   \* bound: records on the topic
  MaxFaults     \* bound: crashes, stops, rebalances, partial or doubled inserts

ASSUME EnricherAssumption ==
  /\ Sinks \in Seq(Range(Sinks)) /\ Rejected \notin Range(Sinks)
  /\ \A i, k \in DOMAIN Sinks : Sinks[i] = Sinks[k] => i = k
  /\ \A s \in Spans : s.sink \in Range(Sinks) \cup {Rejected}
  /\ \A s, t \in Spans : s.project = t.project /\ s.id = t.id => s = t
  /\ Nobody \notin Jobs
  /\ Skewed \subseteq Spans
  /\ {Ahead, RetryHorizon, MaxLag, MaxNow, MaxCopies, MaxRecords,
      MaxFaults} \subseteq Nat

VARIABLES
  topic,        \* the partition: a sequence of [span, at]
  now,
  committed,    \* the group's offset: records read for good
  owner,        \* the member the partition is assigned to
  job,          \* each process
  copies,       \* rows inserted of each span: what the usage views have summed
  parked,       \* offsets with an envelope on the dead-letter topic
  faults,       \* how many accidents there were,
  accidents     \* and how many of them could double each span

broker == <<topic, now>>
stores == <<copies, parked>>
history == <<faults, accidents>>
vars == <<topic, now, committed, owner, job, copies, parked, faults,
          accidents>>

PCs == {"down", "idle", "inserting", "sending"}

\* (Mutant) Two tenants share one id space.
KeyById(s) == <<"any project", s.id>>

\* The identity of a span is scoped by its project: ids are client-set.
Key(s) == <<s.project, s.id>>

SpanAt(o) == topic[o].span

\* An accident that touches these spans.
Fault(spans) ==
  /\ faults < MaxFaults
  /\ faults' = faults + 1
  /\ accidents' = [s \in Spans |-> IF s \in spans THEN accidents[s] + 1 ELSE accidents[s]]

Down == [pc |-> "down", upto |-> 0, stale |-> FALSE, stopping |-> FALSE,
         fresh |-> {}, acked |-> 0, envelopes |-> {}, recent |-> EmptyCache]

Init ==
  /\ topic = <<>> /\ now = 0
  /\ committed = 0 /\ owner = Nobody
  /\ job = [j \in Jobs |-> Down]
  /\ copies = [s \in Spans |-> 0] /\ parked = {}
  /\ faults = 0 /\ accidents = [s \in Spans |-> 0]

-----------------------------------------------------------------------------
(* Producers.                                                              *)

RealTime(o) == IF SpanAt(o) \in Skewed THEN topic[o].at - Ahead ELSE topic[o].at

\* A span is exported, or exported again because its acknowledgement was lost.
Produce(s) ==
  LET at     == IF s \in Skewed THEN now + Ahead ELSE now
      before == {o \in DOMAIN topic : SpanAt(o) = s}
  IN  /\ Len(topic) < MaxRecords /\ Cardinality(before) < MaxCopies
      /\ before = {} \/ \E o \in before : RealTime(o) + RetryHorizon >= now
      /\ topic' = Append(topic, [span |-> s, at |-> at])
      /\ UNCHANGED <<now, committed, owner, job, stores, history>>

Tick ==
  /\ now < MaxNow
  /\ \A o \in committed + 1 .. Len(topic) : RealTime(o) + MaxLag > now
  /\ now' = now + 1
  /\ UNCHANGED <<topic, committed, owner, job, stores, history>>

-----------------------------------------------------------------------------
(* The group.                                                              *)

Starts(j) ==
  /\ job[j].pc = "down"
  /\ job' = [job EXCEPT ![j] = [Down EXCEPT !.pc = "idle"]]
  /\ UNCHANGED <<broker, committed, owner, stores, history>>

Leaves(j) ==
  /\ job' = [job EXCEPT ![j] = Down]
  /\ owner' = IF owner = j THEN Nobody ELSE owner
  /\ UNCHANGED <<broker, committed, stores>>

\* The process dies: its poll, its acks and its dedup cache are gone.
Crashes(j) ==
  /\ job[j].pc # "down"
  /\ Fault(Spans)
  /\ Leaves(j)

\* SIGTERM only sets a flag, for the poll loop and the retry loop to see.
RequestStop(j) ==
  /\ job[j].pc # "down" /\ ~job[j].stopping
  /\ Fault(Spans)
  /\ job' = [job EXCEPT ![j].stopping = TRUE]
  /\ UNCHANGED <<broker, committed, owner, stores>>

\* The partition goes to j: because nobody has it, or in a rebalance, which
\* may also take it away and give it back.  Polls in flight lose their claim.
Assign(j) ==
  /\ job[j].pc # "down"
  /\ IF owner = Nobody THEN UNCHANGED history ELSE Fault(Spans)
  /\ owner' = j
  /\ job' = [i \in Jobs |-> [job[i] EXCEPT !.stale = job[i].pc \notin {"down", "idle"}]]
  /\ UNCHANGED <<broker, committed, stores>>

-----------------------------------------------------------------------------
(* One cycle, _process_poll.                                               *)

\* The first record of each span that this process has not stored recently.
Fresh(polled, recent) ==
  {o \in polled :
     /\ SpanAt(o).sink # Rejected
     /\ ~Knows(recent, Key(SpanAt(o)))
     /\ \A p \in polled : p < o /\ SpanAt(p).sink # Rejected
          => Key(SpanAt(p)) # Key(SpanAt(o))}

\* The versions of the agents come from Postgres in between; a failure there
\* is retried like one of an insert that landed nothing.
Poll(j) ==
  /\ job[j].pc = "idle" /\ ~job[j].stopping
  /\ owner = j
  /\ \E upto \in committed + 1 .. Len(topic) :
       LET polled == committed + 1 .. upto
       IN  job' = [job EXCEPT ![j] =
                     [@ EXCEPT !.pc = "inserting", !.upto = upto, !.stale = FALSE,
                               !.acked = 0, !.fresh = Fresh(polled, job[j].recent),
                               !.envelopes = {o \in polled : SpanAt(o).sink = Rejected}]]
  /\ UNCHANGED <<broker, committed, owner, stores, history>>

\* What is remembered of them, in the order of the partition.
Entries(offsets) ==
  LET order == CHOOSE q \in [1..Cardinality(offsets) -> offsets] :
                 \A i, k \in DOMAIN q : i < k => q[i] < q[k]
  IN  [i \in DOMAIN order |-> [key |-> Key(SpanAt(order[i])), at |-> topic[order[i]].at]]

\* The batch of the first table that has not acked.
Batch(j) == {SpanAt(o) : o \in {p \in job[j].fresh :
                                  SpanAt(p).sink = Sinks[job[j].acked + 1]}}

Inserting(j) == job[j].pc = "inserting" /\ job[j].acked < Len(Sinks)

Land(batch, times) ==
  copies' = [s \in Spans |-> IF s \in batch THEN copies[s] + times ELSE copies[s]]

InsertAcks(j) ==
  /\ Inserting(j)
  /\ Land(Batch(j), 1)
  /\ job' = [job EXCEPT ![j].acked = @ + 1]
  /\ UNCHANGED <<broker, committed, owner, parked, history>>

\* The driver sends the body again on a dropped keep-alive, without an error.
InsertResent(j) ==
  /\ Inserting(j) /\ Batch(j) # {}
  /\ Fault(Batch(j))
  /\ Land(Batch(j), 2)
  /\ job' = [job EXCEPT ![j].acked = @ + 1]
  /\ UNCHANGED <<broker, committed, owner, parked>>

\* (Mutant) A retry starts over with tables that have acked.
InsertFailsForgettingAcks(j) ==
  /\ Inserting(j)
  /\ \E landed \in SUBSET Batch(j) : Land(landed, 1) /\ Fault(landed)
  /\ job' = [job EXCEPT ![j].acked = 0]
  /\ UNCHANGED <<broker, committed, owner, parked>>

\* An error, after some blocks of the batch were committed; the retry sends
\* the whole batch of this table again.
InsertFails(j) ==
  /\ Inserting(j)
  /\ \E landed \in SUBSET Batch(j) : landed # {} /\ Land(landed, 1) /\ Fault(landed)
  /\ UNCHANGED <<broker, committed, owner, job, parked>>

\* Only whole acked inserts are remembered.
Remembers(j) ==
  /\ job[j].pc = "inserting" /\ job[j].acked = Len(Sinks)
  /\ job' = [job EXCEPT ![j].pc = "sending",
                        ![j].recent = Remember(@, Entries(job[j].fresh), now)]
  /\ UNCHANGED <<broker, committed, owner, stores, history>>

\* One envelope at a time, in order, each until the broker has it.
Sends(j) ==
  /\ job[j].pc = "sending"
  /\ \E o \in job[j].envelopes :
       /\ \A p \in job[j].envelopes : o <= p
       /\ parked' = parked \cup {o}
       /\ job' = [job EXCEPT ![j].envelopes = @ \ {o}]
  /\ UNCHANGED <<broker, committed, owner, copies, history>>

EndsPoll(j) == job' = [job EXCEPT ![j] = [@ EXCEPT !.pc = "idle", !.upto = 0,
                                          !.stale = FALSE, !.fresh = {}, !.acked = 0]]

\* (Mutant) A commit refused after a rebalance is retried until it succeeds.
CommitsOrWaits(j) ==
  /\ job[j].pc = "sending" /\ job[j].envelopes = {}
  /\ ~job[j].stale
  /\ committed' = job[j].upto
  /\ EndsPoll(j)
  /\ UNCHANGED <<broker, owner, stores, history>>

\* After a rebalance the commit is refused and the poll dropped: whoever owns
\* the partition reads it again.
Commits(j) ==
  /\ job[j].pc = "sending" /\ job[j].envelopes = {}
  /\ committed' = IF job[j].stale THEN committed ELSE job[j].upto
  /\ EndsPoll(j)
  /\ UNCHANGED <<broker, owner, stores, history>>

\* (Mutant) A stop commits what it leaves behind.
GivesUpCommitting(j) ==
  /\ job[j].stopping
  /\ job' = [job EXCEPT ![j] = Down]
  /\ owner' = IF owner = j THEN Nobody ELSE owner
  /\ committed' = IF job[j].pc = "idle" \/ job[j].stale THEN committed ELSE job[j].upto
  /\ UNCHANGED <<broker, stores, history>>

\* A stop seen at the top of the poll loop, or by an attempt that has failed:
\* the process ends without committing.
GivesUp(j) ==
  /\ job[j].stopping
  /\ job[j].pc \in {"idle", "sending"} \/ Inserting(j)
  /\ Leaves(j)
  /\ UNCHANGED history

-----------------------------------------------------------------------------
\* What a process does when nothing fails.
Works(j) ==
  \/ Poll(j) \/ InsertAcks(j) \/ Remembers(j) \/ Sends(j)
  \/ Commits(j)

Next ==
  \/ Tick
  \/ \E s \in Spans : Produce(s)
  \/ \E j \in Jobs : \/ Starts(j) \/ Assign(j) \/ Works(j) \/ GivesUp(j)
                     \/ Crashes(j) \/ RequestStop(j)
                     \/ InsertResent(j) \/ InsertFails(j)

Spec == Init /\ [][Next]_vars

\* A process that has gone is restarted, the group gives a free partition to
\* a member, retries succeed in the end, a stop request is obeyed.
FairSpec ==
  /\ Spec
  /\ \A j \in Jobs : /\ WF_vars(Starts(j))
                     /\ WF_vars(owner = Nobody /\ Assign(j))
                     /\ WF_vars(Works(j) \/ GivesUp(j))

-----------------------------------------------------------------------------
(* Properties.                                                             *)

Entry == [key : {Key(s) : s \in Spans}, at : Nat]

TypeOK ==
  /\ topic \in Seq([span : Spans, at : Nat])
  /\ now \in 0..MaxNow
  /\ committed \in 0..Len(topic)
  /\ owner \in Jobs \cup {Nobody}
  /\ \A j \in Jobs :
       /\ job[j].pc \in PCs
       /\ job[j].upto \in 0..Len(topic) /\ job[j].acked \in 0..Len(Sinks)
       /\ job[j].fresh \cup job[j].envelopes \subseteq 1..job[j].upto
       /\ job[j].recent.seen \in Seq(Entry) /\ job[j].recent.newest \in Nat
  /\ copies \in [Spans -> Nat]
  /\ parked \subseteq DOMAIN topic
  /\ faults \in 0..MaxFaults /\ accidents \in [Spans -> 0..faults]

\* A record behind the committed offset is never read again, so by then its
\* span is stored, or its envelope is on the dead-letter topic: whatever was
\* lost, restarted or handed over in the middle of a poll, and whichever other
\* tenant used the same id.
NothingLost ==
  \A o \in 1..committed : IF SpanAt(o).sink = Rejected THEN o \in parked
                                                       ELSE copies[SpanAt(o)] >= 1

\* A usage view over-counts only by accidents: without a restart or a rebalance,
\* or an insert that doubled its rows, every span is counted once, however often
\* its producer sent it, and each accident adds one to a span at the most.
OverCountedByAccident == \A s \in Spans : copies[s] <= 1 + accidents[s]

\* dedup.py: "catch-up after an outage dedups like live traffic", and one
\* record from a clock that jumped ahead must not "expire every live entry".
CatchUpDedups == OverCountedByAccident

\* The promise the pipeline makes to its producers, of the spans.
Promise == INSTANCE Delivery WITH
  Events       <- Spans,
  sent         <- {SpanAt(o) : o \in DOMAIN topic},
  settled      <- {s \in Spans : copies[s] >= 1} \cup {SpanAt(o) : o \in parked},
  acknowledged <- {SpanAt(o) : o \in 1..committed}

AtLeastOnce == Promise!Spec

\* Every span is settled and acknowledged in the end: no process, retry or
\* refused commit keeps the partition from moving on.
EventuallyAcknowledged == Promise!EverythingAcknowledged
=============================================================================
