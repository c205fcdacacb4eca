--------------------------- MODULE ClientDocuments ---------------------------
(* The metadata documents of OAuth clients (features/oauth/client_cache.py):  *)
(* fetched once for all callers, kept for a while, served past their time     *)
(* while their host fails; failures are kept apart, for a shorter while.      *)
EXTENDS Naturals, SequencesExt

CONSTANTS
  None, Clients, Versions,
  DocumentTTL, FailureTTL, MaxStale, FetchTimeout,
  MaxEntries,
  Horizon       \* bound: ages are counted no further

\* Of the constants; assumed by the modules that give them values.
ClientAssumption ==
  /\ {DocumentTTL, FailureTTL, MaxStale, FetchTimeout, MaxEntries} \subseteq Nat \ {0}
  /\ FailureTTL <= DocumentTTL
  /\ Horizon \in Nat /\ Horizon > DocumentTTL + MaxStale + FetchTimeout

VARIABLES
  published,    \* per client: the version at its URL
  gone,         \* how long each version has not been the published one
  documents,    \* _documents, least recently used first; times are what is left
  failures,     \* _failures
  task,         \* per client: the fetch in flight, its age and what it has read
  loaded        \* history: age of the client's last good fetch not evicted since

vars == <<published, gone, documents, failures, task, loaded>>

TypeOK ==
  /\ published \in [Clients -> Versions]
  /\ gone \in [Clients -> [Versions -> 0..Horizon]]
  /\ documents \in Seq([client : Clients, version : Versions,
                        left : 0..DocumentTTL, stale : 0..DocumentTTL + MaxStale])
  /\ failures \in Seq([client : Clients, left : 0..FailureTTL])
  /\ Len(documents) <= MaxEntries /\ Len(failures) <= MaxEntries
  /\ task \in [Clients -> [age : 0..FetchTimeout, read : Versions \cup {None}] \cup {None}]
  /\ loaded \in [Clients -> 0..Horizon \cup {None}]

Init ==
  /\ published \in [Clients -> Versions]
  /\ gone = [c \in Clients |-> [v \in Versions |-> IF v = published[c] THEN 0 ELSE Horizon]]
  /\ documents = <<>> /\ failures = <<>>
  /\ task = [c \in Clients |-> None] /\ loaded = [c \in Clients |-> None]

-----------------------------------------------------------------------------
(* _ExpiringLru.                                                             *)

Entries(lru, c) == {e \in Range(lru) : e.client = c}

Place(lru, c) == CHOOSE i \in DOMAIN lru : lru[i].client = c

Without(lru, c) == IF Entries(lru, c) = {} THEN lru ELSE RemoveAt(lru, Place(lru, c))

Put(lru, entry) ==
  LET s == Append(Without(lru, entry.client), entry)
  IN IF Len(s) > MaxEntries THEN Tail(s) ELSE s

\* A hit moves the entry to the young end.
Touch(lru, c) ==
  IF Entries(lru, c) = {} THEN lru ELSE Append(Without(lru, c), lru[Place(lru, c)])

Live(lru, c) == \E e \in Entries(lru, c) : e.left > 0

-----------------------------------------------------------------------------

Older(age) == IF age < Horizon THEN age + 1 ELSE age

Less(time) == IF time > 0 THEN time - 1 ELSE 0

\* What a tick leaves of a document, a failure and a fetch.
Aged(document) ==
  [document EXCEPT !.left = Less(document.left), !.stale = Less(document.stale)]
Waned(failure) == [failure EXCEPT !.left = Less(@)]
Run(fetch) == IF fetch = None THEN None ELSE [fetch EXCEPT !.age = @ + 1]

Tick ==
  /\ \A c \in Clients : task[c] # None => task[c].age < FetchTimeout
  /\ gone' = [c \in Clients |-> [v \in Versions |->
                IF v = published[c] THEN 0 ELSE Older(gone[c][v])]]
  /\ documents' = [i \in DOMAIN documents |-> Aged(documents[i])]
  /\ failures' = [i \in DOMAIN failures |-> Waned(failures[i])]
  /\ task' = [c \in Clients |-> Run(task[c])]
  /\ loaded' = [c \in Clients |-> IF loaded[c] = None THEN None ELSE Older(loaded[c])]
  /\ UNCHANGED published

Publish(c, v) ==
  /\ v # published[c]
  /\ published' = [published EXCEPT ![c] = v]
  /\ gone' = [gone EXCEPT ![c][v] = 0]
  /\ UNCHANGED <<documents, failures, task, loaded>>

\* get: a document, a failure, the fetch in flight or a new one.
Get(c) ==
  /\ \/ /\ Live(documents, c)
        /\ documents' = Touch(documents, c)
        /\ UNCHANGED <<failures, task>>
     \/ /\ ~Live(documents, c) /\ Live(failures, c)
        /\ failures' = Touch(failures, c)
        /\ UNCHANGED <<documents, task>>
     \/ /\ ~Live(documents, c) /\ ~Live(failures, c) /\ task[c] = None
        /\ task' = [task EXCEPT ![c] = [age |-> 0, read |-> None]]
        /\ UNCHANGED <<documents, failures>>
  /\ UNCHANGED <<published, gone, loaded>>

\* The host answers with what is published.
Answers(c) ==
  /\ task[c] # None /\ task[c].read = None
  /\ task' = [task EXCEPT ![c].read = published[c]]
  /\ UNCHANGED <<published, gone, documents, failures, loaded>>

Kept(c, v) == [client |-> c, version |-> v, left |-> DocumentTTL, stale |-> DocumentTTL + MaxStale]

\* An eviction ends what is promised to the client that was evicted.
Evicts(lru) == [x \in Clients |-> IF Entries(lru, x) = {} THEN None ELSE loaded[x]]

Loads(c) ==
  /\ task[c] # None /\ task[c].read # None
  /\ documents' = Put(documents, Kept(c, task[c].read))
  /\ loaded' = [Evicts(documents') EXCEPT ![c] = 0]
  /\ task' = [task EXCEPT ![c] = None]
  /\ UNCHANGED <<published, gone, failures>>

\* (Mutant) Every stale answer starts the grace anew.
FailsRenewing(c) ==
  /\ task[c] # None
  /\ task' = [task EXCEPT ![c] = None]
  /\ IF \E e \in Entries(documents, c) : e.stale > 0
     THEN /\ \E e \in Entries(documents, c) :
               documents' = Put(documents, [e EXCEPT !.left = FailureTTL, !.stale = MaxStale])
          /\ UNCHANGED failures
     ELSE /\ failures' = Put(failures, [client |-> c, left |-> FailureTTL])
          /\ UNCHANGED documents
  /\ UNCHANGED <<published, gone, loaded>>

\* (Mutant) A failure is a failure, whatever has expired.
FailsForgetting(c) ==
  /\ task[c] # None
  /\ task' = [task EXCEPT ![c] = None]
  /\ failures' = Put(failures, [client |-> c, left |-> FailureTTL])
  /\ UNCHANGED <<published, gone, documents, loaded>>

\* The fetch failed, or what it brought is no client's document: the expired
\* document stands in for a while, never past its own limit.
Fails(c) ==
  /\ task[c] # None
  /\ task' = [task EXCEPT ![c] = None]
  /\ IF \E e \in Entries(documents, c) : e.stale > 0
     THEN /\ \E e \in Entries(documents, c) :
               documents' = Put(documents, [e EXCEPT !.left = Min({FailureTTL, e.stale})])
          /\ UNCHANGED failures
     ELSE /\ failures' = Put(failures, [client |-> c, left |-> FailureTTL])
          /\ documents' = Touch(documents, c)
  /\ UNCHANGED <<published, gone, loaded>>

Next ==
  \/ Tick
  \/ \E c \in Clients : \/ Get(c) \/ Answers(c) \/ Loads(c) \/ Fails(c)
                        \/ \E v \in Versions : Publish(c, v)

Spec == Init /\ [][Next]_vars

-----------------------------------------------------------------------------

\* What a removed redirect can still be used for ends: a document is served no
\* longer than its time, the grace and one fetch after it ceased to be the
\* published one, however often its host fails and is asked again.
OldDocumentsEnd ==
  \A c \in Clients : \A e \in Entries(documents, c) :
    e.left > 0 => gone[c][e.version] <= DocumentTTL + MaxStale + FetchTimeout

\* A blip at the client's host refuses nobody: a login is refused for a failure
\* only when no fetch succeeded for as long as a document and its grace last,
\* or its document had to make room for another client's.
BlipsRefuseNobody ==
  \A c \in Clients :
    (~Live(documents, c) /\ Live(failures, c)) =>
      loaded[c] = None \/ loaded[c] >= DocumentTTL + MaxStale
=============================================================================
