---------------------------- MODULE UsageSource ----------------------------
(***************************************************************************)
(* PlatformUsageSource (hexgate/security/usage_source.py): one snapshot of  *)
(* platform usage per scope, agents and end users, that the threads of a    *)
(* process share.  A run's boundary refreshes it, waiting for a fetch if it *)
(* is missing or old, else in the background; a decision reads it, and asks *)
(* for a background refresh if it is not fresh.                             *)
(*                                                                         *)
(* A user's state may be evicted while a thread holds it: states are        *)
(* objects, the table says which one a scope has.  Times are ages and       *)
(* remaining times, counted no further than a threshold tells them apart.   *)
(***************************************************************************)
EXTENDS Integers, Sequences, FiniteSets, SequencesExt

CONSTANTS
  Agents, Users,    \* scopes
  Asked,            \* the path sets that policies reference, by scope
  Capacity,         \* user states kept
  Callers,          \* threads at a run boundary or in a decision
  Workers,          \* threads of the executor
  States,           \* _ScopeState objects; enough that one is always free
  MinRefresh, SyncAfter, MaxStaleness, RejectedRetry,
  Timeout,          \* the client's refresh_timeout
  None

Scopes == Agents \cup Users
Procs == Callers \cup Workers

ASSUME SourceAssumption ==
  /\ Callers \cap Workers = {} /\ None \notin States \cup Scopes \cup Procs
  /\ 0 < MinRefresh /\ MinRefresh <= SyncAfter /\ SyncAfter <= MaxStaleness
  /\ {MinRefresh, SyncAfter, MaxStaleness, RejectedRetry, Timeout, Capacity} \subseteq Nat
  /\ Cardinality(States) >= Cardinality(Agents) + Capacity + Cardinality(Callers)
                              + Cardinality(Scopes)

VARIABLES
  table,            \* the state of each scope, or None
  recent,           \* users of the table, least recently used first
  state,            \* the objects
  paused,           \* how long the users' fetches are still paused
  inFlight,         \* scopes with a background refresh
  queue,            \* jobs the executor has not begun
  proc,             \* the threads
  up                \* the platform answers

vars == <<table, recent, state, paused, inFlight, queue, proc, up>>

\* snapshot, attempt: the paths and the age, None before the first; rejected:
\* for how long; lock: who holds fetch_lock.
NewState == [wanted |-> {}, snapshot |-> None, attempt |-> None, rejected |-> 0, lock |-> None]

\* paths: those asked for, then those fetched; age: of the fetch.
Idle == [pc |-> "idle", scope |-> None, of |-> None, paths |-> {}, age |-> 0]

PCs == {"idle", "tier", "schedule", "lock", "fetch", "wait", "finish"}

Init ==
  /\ table = [s \in Scopes |-> None]
  /\ recent = <<>>
  /\ state = [i \in States |-> NewState]
  /\ paused = 0
  /\ inFlight = {} /\ queue = {}
  /\ proc = [p \in Procs |-> Idle]
  /\ up \in BOOLEAN

-----------------------------------------------------------------------------
\* An object nobody refers to.
Free(i) == /\ \A s \in Scopes : table[s] # i
           /\ \A p \in Procs : proc[p].of # i
           /\ \A j \in queue : j.of # i

\* What nobody refers to is gone.
Kept == [i \in States |-> IF Free(i) THEN NewState ELSE state[i]]

\* _ScopeTable.touch, with the paths wanted: the least recently used user goes.
\* A new scope gets an object; there is always one, by the size of States.
Touch(s, paths) ==
  LET known == table[s] # None
      i == IF known THEN table[s] ELSE CHOOSE j \in States : Free(j)
      order == Append(Remove(recent, s), s)
      full == s \in Users /\ Len(order) > Capacity
  IN  /\ known \/ \E j \in States : Free(j)
      /\ recent' = IF s \in Agents THEN recent ELSE IF full THEN Tail(order) ELSE order
      /\ table' = [u \in Scopes |-> IF u = s THEN i
                                    ELSE IF full /\ u = Head(order) THEN None ELSE table[u]]
      /\ state' = [Kept EXCEPT ![i].wanted = @ \cup paths]

Paused(s) == s \in Users /\ paused > 0

\* (Mutant) A failed attempt is forgotten.
ThrottledUnlessFailed(s, i) ==
  LET last == state[i].attempt
  IN  \/ Paused(s) \/ state[i].rejected > 0
      \/ /\ last # None /\ state[i].snapshot # None
         /\ last.age < MinRefresh /\ state[i].wanted \subseteq last.paths

\* _throttled_locked.
Throttled(s, i) ==
  LET last == state[i].attempt
  IN  \/ Paused(s) \/ state[i].rejected > 0
      \/ /\ last # None
         /\ last.age < MinRefresh /\ state[i].wanted \subseteq last.paths

\* _covered: another fetch finished meanwhile.
Covered(i) ==
  LET snap == state[i].snapshot
  IN  snap # None /\ snap.age < SyncAfter /\ state[i].wanted \subseteq snap.paths

Goes(p, pc) == proc' = [proc EXCEPT ![p].pc = pc]
Ends(p) == proc' = [proc EXCEPT ![p] = Idle]

-----------------------------------------------------------------------------
(* Callers.                                                                *)

\* refresh and refresh_async: _remember ...
Refresh(p, s, paths) ==
  /\ proc[p].pc = "idle"
  /\ Touch(s, paths)
  /\ proc' = [proc EXCEPT ![p] = [Idle EXCEPT !.pc = "tier", !.scope = s,
                                              !.of = table'[s], !.paths = paths]]
  /\ UNCHANGED <<paused, inFlight, queue, up>>

\* ... and _tier: wait, ask in the background, or do neither.
Tier(p) ==
  LET snap == state[proc[p].of].snapshot
  IN  /\ proc[p].pc = "tier"
      /\ IF Paused(proc[p].scope) THEN Ends(p)
         ELSE IF snap = None THEN Goes(p, "lock")
         ELSE IF snap.age >= SyncAfter THEN Goes(p, "lock")
         ELSE IF ~(proc[p].paths \subseteq snap.paths) \/ snap.age >= MinRefresh
              THEN Goes(p, "schedule") ELSE Ends(p)
      /\ UNCHANGED <<table, recent, state, paused, inFlight, queue, up>>

\* read: FRESH is a snapshot under sync_after with every path.
Read(p, s, paths) ==
  LET snap == IF table[s] = None THEN None ELSE state[table[s]].snapshot
      fresh == snap # None /\ snap.age < SyncAfter /\ paths \subseteq snap.paths
  IN  /\ proc[p].pc = "idle"
      /\ Touch(s, paths)
      /\ IF fresh THEN UNCHANGED proc
         ELSE proc' = [proc EXCEPT ![p] = [Idle EXCEPT !.pc = "schedule", !.scope = s]]
      /\ UNCHANGED <<paused, inFlight, queue, up>>

\* _schedule: the state the scope has now, one background refresh at a time.
Schedule(p) ==
  LET s == proc[p].scope
      i == table[s]
  IN  /\ proc[p].pc = "schedule"
      /\ IF i = None \/ s \in inFlight THEN UNCHANGED <<inFlight, queue>>
         ELSE IF Throttled(s, i) THEN UNCHANGED <<inFlight, queue>>
         ELSE /\ inFlight' = inFlight \cup {s}
              /\ queue' = queue \cup {[scope |-> s, of |-> i]}
      /\ Ends(p)
      /\ UNCHANGED <<table, recent, state, paused, up>>

-----------------------------------------------------------------------------
(* Fetches: of a caller that waits, or of a worker.                        *)

\* A worker begins a job.
Take(p) ==
  /\ proc[p].pc = "idle"
  /\ \E j \in queue :
       /\ queue' = queue \ {j}
       /\ proc' = [proc EXCEPT ![p] = [Idle EXCEPT !.pc = "lock", !.scope = j.scope, !.of = j.of]]
  /\ UNCHANGED <<table, recent, state, paused, inFlight, up>>

\* A worker's job is done before _finish says so.
After(p) ==
  IF p \in Workers THEN [Idle EXCEPT !.pc = "finish", !.scope = proc[p].scope] ELSE Idle

\* (Mutant) Nobody waits for a fetch of the same scope.
LockUnguarded(p) ==
  LET i == proc[p].of
  IN  /\ proc[p].pc = "lock"
      /\ IF Throttled(proc[p].scope, i) \/ (p \in Callers /\ Covered(i))
         THEN UNCHANGED state /\ proc' = [proc EXCEPT ![p] = After(p)]
         ELSE state' = [state EXCEPT ![i].lock = p] /\ Goes(p, "fetch")
      /\ UNCHANGED <<table, recent, paused, inFlight, queue, up>>

\* _fetch_now, _fetch_in_background: under fetch_lock the need is looked at again.
Lock(p) ==
  LET i == proc[p].of
  IN  /\ proc[p].pc = "lock"
      /\ state[i].lock = None
      /\ IF Throttled(proc[p].scope, i) \/ (p \in Callers /\ Covered(i))
         THEN UNCHANGED state /\ proc' = [proc EXCEPT ![p] = After(p)]
         ELSE state' = [state EXCEPT ![i].lock = p] /\ Goes(p, "fetch")
      /\ UNCHANGED <<table, recent, paused, inFlight, queue, up>>

\* _fetch: what is wanted now is what is asked.
Start(p) ==
  LET i == proc[p].of
  IN  /\ proc[p].pc = "fetch"
      /\ state' = [state EXCEPT ![i].attempt = [age |-> 0, paths |-> state[i].wanted]]
      /\ proc' = [proc EXCEPT ![p].pc = "wait", ![p].paths = state[i].wanted, ![p].age = 0]
      /\ UNCHANGED <<table, recent, paused, inFlight, queue, up>>

Succeed(p) ==
  LET i == proc[p].of
  IN  /\ proc[p].pc = "wait" /\ up
      /\ state' = [state EXCEPT ![i].snapshot = [age |-> proc[p].age, paths |-> proc[p].paths],
                                ![i].lock = None]
      /\ proc' = [proc EXCEPT ![p] = After(p)]
      /\ UNCHANGED <<table, recent, paused, inFlight, queue, up>>

Longer(a, b) == IF a > b THEN a ELSE b

\* (Mutant) A request that raises leaves with the lock.
FailLocked(p, refused) ==
  LET i == proc[p].of
      left == Longer(0, (IF refused THEN RejectedRetry ELSE MinRefresh) - proc[p].age)
      agent == proc[p].scope \in Agents
  IN  /\ proc[p].pc = "wait" /\ ~up
      /\ state' = [state EXCEPT ![i].rejected = IF agent /\ refused THEN left ELSE @]
      /\ paused' = IF agent THEN paused ELSE Longer(paused, left)
      /\ proc' = [proc EXCEPT ![p] = After(p)]
      /\ UNCHANGED <<table, recent, inFlight, queue, up>>

\* _back_off_scope of an agent, _pause_kind of a user; the last snapshot stays.
Fail(p, refused) ==
  LET i == proc[p].of
      left == Longer(0, (IF refused THEN RejectedRetry ELSE MinRefresh) - proc[p].age)
      agent == proc[p].scope \in Agents
  IN  /\ proc[p].pc = "wait" /\ ~up
      /\ state' = [state EXCEPT ![i].lock = None,
                                ![i].rejected = IF agent /\ refused THEN left ELSE @]
      /\ paused' = IF agent THEN paused ELSE Longer(paused, left)
      /\ proc' = [proc EXCEPT ![p] = After(p)]
      /\ UNCHANGED <<table, recent, inFlight, queue, up>>

\* (Mutant) Only a job that fetched takes the mark away.
FinishIfCurrent(p) ==
  /\ proc[p].pc = "finish"
  /\ inFlight' = IF table[proc[p].scope] = None THEN inFlight ELSE inFlight \ {proc[p].scope}
  /\ Ends(p)
  /\ UNCHANGED <<table, recent, state, paused, queue, up>>

\* _finish.
Finish(p) ==
  /\ proc[p].pc = "finish"
  /\ inFlight' = inFlight \ {proc[p].scope}
  /\ Ends(p)
  /\ UNCHANGED <<table, recent, state, paused, queue, up>>

-----------------------------------------------------------------------------
Older(x, limit) == IF x = None THEN None ELSE [x EXCEPT !.age = IF @ < limit THEN @ + 1 ELSE @]
Less(n) == IF n > 0 THEN n - 1 ELSE 0

\* Time passes, though no request lasts longer than its timeout.
Tick ==
  /\ \A p \in Procs : proc[p].pc = "wait" => proc[p].age < Timeout
  /\ state' = [i \in States |->
       [Kept[i] EXCEPT !.snapshot = Older(@, MaxStaleness), !.attempt = Older(@, MinRefresh),
                        !.rejected = Less(@)]]
  /\ paused' = Less(paused)
  /\ proc' = [p \in Procs |-> IF proc[p].pc = "wait" THEN [proc[p] EXCEPT !.age = @ + 1] ELSE proc[p]]
  /\ UNCHANGED <<table, recent, inFlight, queue, up>>

Turn ==
  /\ up' = ~up
  /\ UNCHANGED <<table, recent, state, paused, inFlight, queue, proc>>

\* What a thread does by itself once it has begun.
Proceed(p) ==
  \/ Tier(p) \/ Schedule(p) \/ Lock(p) \/ Start(p) \/ Succeed(p) \/ Finish(p)
  \/ \E refused \in BOOLEAN : Fail(p, refused)

Next ==
  \/ \E p \in Callers, s \in Scopes : \E paths \in Asked[s] :
       Refresh(p, s, paths) \/ Read(p, s, paths)
  \/ \E p \in Workers : Take(p)
  \/ \E p \in Procs : Proceed(p)
  \/ Tick \/ Turn

\* Threads are scheduled, time passes, and runs of every agent keep starting.
Fairness ==
  /\ \A p \in Callers : WF_vars(Proceed(p))
  /\ \A p \in Workers : WF_vars(Take(p) \/ Proceed(p))
  /\ WF_vars(Tick)
  /\ \A s \in Agents : SF_vars(\E p \in Callers, paths \in Asked[s] : Refresh(p, s, paths))

Spec == Init /\ [][Next]_vars
FairSpec == Spec /\ Fairness

-----------------------------------------------------------------------------
(* Properties.                                                             *)

TypeOK ==
  /\ table \in [Scopes -> States \cup {None}]
  /\ {recent[k] : k \in DOMAIN recent} = {s \in Users : table[s] # None}
  /\ Len(recent) <= Capacity
  /\ paused \in 0..RejectedRetry
  /\ inFlight \subseteq Scopes
  /\ \A j \in queue : j.scope \in inFlight /\ j.of \in States
  /\ \A i \in States :
       /\ state[i].rejected \in 0..RejectedRetry
       /\ state[i].lock \in Procs \cup {None}
  /\ \A p \in Procs : proc[p].pc \in PCs /\ proc[p].age \in 0..Timeout

\* A scope is marked as in flight exactly while one job for it is queued or at
\* work, though its state was evicted and made anew meanwhile: no mark is lost,
\* which would fetch twice, and none is left, which would never fetch again.
InFlightHasJob ==
  \A s \in Scopes :
    Cardinality({j \in queue : j.scope = s})
      + Cardinality({p \in Workers : proc[p].pc # "idle" /\ proc[p].scope = s})
    = IF s \in inFlight THEN 1 ELSE 0

\* However many threads want it, a scope that was just asked for is left alone for
\* min_refresh, failed or not, unless more paths are wanted; one the platform
\* refused, whatever is wanted.
SpacedAttempts ==
  [][\A p \in Procs : proc[p].pc = "fetch" /\ proc'[p].pc = "wait" =>
       LET i == proc[p].of
       IN  /\ state[i].rejected = 0
           /\ state[i].attempt # None =>
                \/ state[i].attempt.age >= MinRefresh
                \/ ~(state[i].wanted \subseteq state[i].attempt.paths)]_vars

Fresh(s) == table[s] # None /\ state[table[s]].snapshot # None
              /\ state[table[s]].snapshot.age < SyncAfter

\* Unless the platform goes down again and again, an agent whose runs keep starting
\* has a fresh snapshot again and again: no back-off, mark or lock stays for ever.
Heals == \A s \in Agents : []<>(Fresh(s) \/ ~up)
=============================================================================
