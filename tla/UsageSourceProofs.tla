-------------------------- MODULE UsageSourceProofs --------------------------
(* Theorems about UsageSource for any number of scopes, threads, workers and *)
(* states, and any of its delays.                                           *)
EXTENDS UsageSource, FiniteSetTheorems, TLAPS

Path == UNION {UNION Asked[s] : s \in Scopes}

\* An attempt or a snapshot.
Seen == [age : Nat, paths : SUBSET Path] \cup {None}

StateRec == [wanted : SUBSET Path, snapshot : Seen, attempt : Seen, rejected : Nat,
             lock : Procs \cup {None}]

ProcRec == [pc : PCs, scope : Scopes \cup {None}, of : States \cup {None},
            paths : SUBSET Path, age : Nat]

Job == [scope : Scopes, of : States]

Typed ==
  /\ table \in [Scopes -> States \cup {None}]
  /\ state \in [States -> StateRec]
  /\ proc \in [Procs -> ProcRec]
  /\ queue \in SUBSET Job /\ inFlight \in SUBSET Scopes /\ paused \in Nat

\* A scope has its job in the queue or at a worker, one of them, or none and no mark.
Queued(s) == {j \in queue : j.scope = s}
Serving(s) == {p \in Workers : proc[p].pc # "idle" /\ proc[p].scope = s}

OneJob(s) ==
  IF s \in inFlight
  THEN \/ (\E j : Queued(s) = {j}) /\ Serving(s) = {}
       \/ Queued(s) = {} /\ \E p : Serving(s) = {p}
  ELSE Queued(s) = {} /\ Serving(s) = {}

\* Nothing of the object speaks against asking.
Due(i) ==
  /\ state[i].rejected = 0
  /\ state[i].attempt # None =>
       \/ state[i].attempt.age >= MinRefresh
       \/ ~(state[i].wanted \subseteq state[i].attempt.paths)

\* Where a thread is: what it holds, and what it has found under its lock.
At(p) ==
  /\ proc[p].pc \in {"tier", "lock", "fetch", "wait"} => proc[p].of \in States
  /\ proc[p].pc # "idle" => proc[p].scope \in Scopes
  /\ IF p \in Workers THEN proc[p].pc \notin {"tier", "schedule"} ELSE proc[p].pc # "finish"
  /\ proc[p].pc \in {"fetch", "wait"} => state[proc[p].of].lock = p
  /\ proc[p].pc = "fetch" => Due(proc[p].of)

SourceInv == Typed /\ (\A s \in Scopes : OneJob(s)) /\ \A p \in Procs : At(p)

USE DEF PCs

\* Two threads in or before a request never have one object between them.
LEMMA LockExcludes ==
  ASSUME SourceInv, NEW p \in Procs, NEW q \in Procs, p # q,
         proc[p].pc \in {"fetch", "wait"}, proc[q].pc \in {"fetch", "wait"}
  PROVE  proc[p].of # proc[q].of
BY DEF SourceInv, At

LEMMA ProcFacts ==
  ASSUME SourceInv, NEW p \in Procs
  PROVE  /\ proc[p] \in ProcRec /\ At(p) /\ None \notin Procs /\ None \notin States
         /\ proc[p].pc \in PCs /\ proc[p].age \in Nat /\ proc[p].paths \in SUBSET Path
         /\ proc[p].of \in States => state[proc[p].of] \in StateRec
  <1>1. proc[p] \in ProcRec /\ At(p)
    BY DEF SourceInv, Typed
  <1>2. QED BY <1>1, SourceAssumption DEF SourceInv, Typed, ProcRec

LEMMA IdleTyped == Idle \in ProcRec
BY DEF Idle, ProcRec

LEMMA RecTyped ==
  ASSUME NEW r \in ProcRec
  PROVE  /\ Idle \in ProcRec
         /\ \A s \in Scopes : [Idle EXCEPT !.pc = "finish", !.scope = s] \in ProcRec
         /\ \A pc \in PCs : /\ [r EXCEPT !.pc = pc] \in ProcRec
                            /\ [r EXCEPT !.pc = pc].pc = pc
                            /\ [r EXCEPT !.pc = pc].of = r.of
                            /\ [r EXCEPT !.pc = pc].scope = r.scope
<1>1. Idle \in ProcRec
  BY DEF Idle, ProcRec
<1>2. \A s \in Scopes : [Idle EXCEPT !.pc = "finish", !.scope = s] \in ProcRec
  BY DEF Idle, ProcRec
<1>3. \A pc \in PCs : /\ [r EXCEPT !.pc = pc] \in ProcRec
                      /\ [r EXCEPT !.pc = pc].pc = pc
                      /\ [r EXCEPT !.pc = pc].of = r.of
                      /\ [r EXCEPT !.pc = pc].scope = r.scope
  BY DEF ProcRec
<1>4. QED BY <1>1, <1>2, <1>3

\* A thread that moves without serving another scope than before changes no job.
LEMMA JobsKept ==
  ASSUME SourceInv, NEW p \in Procs, NEW r, proc' = [proc EXCEPT ![p] = r],
         p \in Workers => (r.pc = "idle" <=> proc[p].pc = "idle") /\ r.scope = proc[p].scope,
         queue' = queue, inFlight' = inFlight
  PROVE  \A s \in Scopes : OneJob(s)'
<1>1. proc'[p] = r /\ \A q \in Procs : q # p => proc'[q] = proc[q]
  BY DEF SourceInv, Typed
<1>2. ASSUME NEW s \in Scopes PROVE OneJob(s)'
  <2>1. Serving(s)' = Serving(s) /\ Queued(s)' = Queued(s)
    BY <1>1 DEF Serving, Queued, Procs
  <2>2. QED BY <2>1 DEF OneJob, SourceInv
<1>3. QED BY <1>2

\* What a thread under its lock has found stays so as long as its object is left
\* alone, or only asked for more.
LEMMA OthersKept ==
  ASSUME SourceInv, Typed', NEW p \in Procs, proc'[p] = proc[p],
         proc[p].of \in States =>
           \/ state'[proc[p].of] = state[proc[p].of]
           \/ proc[p].pc \notin {"fetch", "wait"}
           \/ /\ state'[proc[p].of].lock = state[proc[p].of].lock
              /\ state'[proc[p].of].rejected = state[proc[p].of].rejected
              /\ state'[proc[p].of].attempt = state[proc[p].of].attempt
              /\ state[proc[p].of].wanted \subseteq state'[proc[p].of].wanted
  PROVE  At(p)'
<1>1. At(p)
  BY DEF SourceInv
<1>2. PICK i : i = proc[p].of
  OBVIOUS
<1>3. CASE proc[p].pc = "fetch"
  <2>1. i \in States /\ Due(i) /\ state[i].lock = p
    BY <1>1, <1>2, <1>3 DEF At
  <2>2. state'[i].lock = p /\ state'[i].rejected = 0 /\ state'[i].attempt = state[i].attempt
        /\ state[i].wanted \subseteq state'[i].wanted
    BY <1>2, <1>3, <2>1 DEF Due
  <2>3. Due(i)'
    BY <2>1, <2>2 DEF Due
  <2>4. QED BY <1>1, <1>2, <1>3, <2>1, <2>2, <2>3 DEF At
<1>4. CASE proc[p].pc # "fetch"
  BY <1>1, <1>2, <1>4 DEF At
<1>5. QED BY <1>3, <1>4

\* A step of one thread.
LEMMA MoveKeeps ==
  ASSUME SourceInv, Typed', NEW p \in Procs, NEW r, proc' = [proc EXCEPT ![p] = r], At(p)',
         \A s \in Scopes : OneJob(s)',
         \A q \in Procs : q # p /\ proc[q].of \in States =>
           \/ state'[proc[q].of] = state[proc[q].of]
           \/ proc[q].pc \notin {"fetch", "wait"}
           \/ /\ state'[proc[q].of].lock = state[proc[q].of].lock
              /\ state'[proc[q].of].rejected = state[proc[q].of].rejected
              /\ state'[proc[q].of].attempt = state[proc[q].of].attempt
              /\ state[proc[q].of].wanted \subseteq state'[proc[q].of].wanted
  PROVE  SourceInv'
<1>1. \A q \in Procs : q # p => proc'[q] = proc[q]
  BY DEF SourceInv, Typed
<1>2. \A q \in Procs : At(q)'
  BY <1>1, OthersKept
<1>3. QED BY <1>2 DEF SourceInv

LEMMA TypedParts ==
  ASSUME SourceInv
  PROVE  /\ table \in [Scopes -> States \cup {None}]
         /\ state \in [States -> StateRec]
         /\ proc \in [Procs -> ProcRec]
         /\ queue \in SUBSET Job /\ inFlight \in SUBSET Scopes /\ paused \in Nat
BY DEF SourceInv, Typed

\* Nobody's object is made anew.
LEMMA TouchTyped ==
  ASSUME SourceInv, NEW s \in Scopes, NEW paths \in Asked[s], Touch(s, paths)
  PROVE  /\ table' \in [Scopes -> States \cup {None}] /\ table'[s] \in States
         /\ state' \in [States -> StateRec]
         /\ \A q \in Procs : proc[q].of \in States =>
              /\ state'[proc[q].of].lock = state[proc[q].of].lock
              /\ state'[proc[q].of].rejected = state[proc[q].of].rejected
              /\ state'[proc[q].of].attempt = state[proc[q].of].attempt
              /\ state[proc[q].of].wanted \subseteq state'[proc[q].of].wanted
<1>1. PICK i : i = IF table[s] # None THEN table[s] ELSE CHOOSE j \in States : Free(j)
  OBVIOUS
<1>2. i \in States
  BY <1>1, TypedParts DEF Touch
<1>3. \E b : table' = [u \in Scopes |-> IF u = s THEN i ELSE IF b /\ u = Head(Append(Remove(recent, s), s)) THEN None ELSE table[u]]
  BY <1>1 DEF Touch
<1>4. table' \in [Scopes -> States \cup {None}] /\ table'[s] = i
  BY <1>2, <1>3, TypedParts
<1>5. state' = [Kept EXCEPT ![i].wanted = @ \cup paths]
  BY <1>1 DEF Touch
<1>6. paths \subseteq Path
  BY DEF Path
<1>7. NewState \in StateRec
  BY DEF NewState, StateRec, Seen
<1>8. Kept \in [States -> StateRec]
  BY <1>7, TypedParts DEF Kept
<1>9. ASSUME NEW k \in StateRec
      PROVE  /\ [k EXCEPT !.wanted = @ \cup paths] \in StateRec
             /\ [k EXCEPT !.wanted = @ \cup paths].lock = k.lock
             /\ [k EXCEPT !.wanted = @ \cup paths].rejected = k.rejected
             /\ [k EXCEPT !.wanted = @ \cup paths].attempt = k.attempt
             /\ k.wanted \subseteq [k EXCEPT !.wanted = @ \cup paths].wanted
  BY <1>6 DEF StateRec
<1>10. \A j \in States : state'[j] = IF j = i THEN [Kept[i] EXCEPT !.wanted = @ \cup paths] ELSE Kept[j]
  BY <1>5, <1>8
<1>11. state' \in [States -> StateRec]
  BY <1>2, <1>5, <1>8, <1>9
<1>12. ASSUME NEW q \in Procs, proc[q].of \in States PROVE Kept[proc[q].of] = state[proc[q].of]
  BY <1>12 DEF Kept, Free
<1>13. ASSUME NEW q \in Procs, proc[q].of \in States
       PROVE  /\ state'[proc[q].of].lock = state[proc[q].of].lock
              /\ state'[proc[q].of].rejected = state[proc[q].of].rejected
              /\ state'[proc[q].of].attempt = state[proc[q].of].attempt
              /\ state[proc[q].of].wanted \subseteq state'[proc[q].of].wanted
  <2>1. state[proc[q].of] \in StateRec
    BY <1>13, TypedParts
  <2>2. CASE proc[q].of = i
    <3>1. PICK k : k = state[i]
      OBVIOUS
    <3>2. k \in StateRec /\ Kept[i] = k
      BY <1>12, <1>13, <2>1, <2>2, <3>1
    <3>3. state'[i] = [k EXCEPT !.wanted = @ \cup paths]
      BY <1>2, <1>10, <3>2
    <3>4. /\ state'[i].lock = k.lock /\ state'[i].rejected = k.rejected
          /\ state'[i].attempt = k.attempt /\ k.wanted \subseteq state'[i].wanted
      BY <1>9, <3>2, <3>3
    <3>5. QED BY <2>2, <3>1, <3>4
  <2>3. CASE proc[q].of # i
    BY <1>10, <1>12, <1>13, <2>3
  <2>4. QED BY <2>2, <2>3
<1>14. QED BY <1>2, <1>4, <1>11, <1>13

\* A caller that touches a scope, and goes on with it or not.
LEMMA CallerTouches ==
  ASSUME SourceInv, NEW p \in Callers, NEW s \in Scopes, NEW paths \in Asked[s],
         proc[p].pc = "idle", Touch(s, paths), UNCHANGED <<paused, inFlight, queue, up>>,
         NEW r \in ProcRec, proc' = [proc EXCEPT ![p] = r],
         r.pc \in {"idle", "tier", "schedule"}, r.scope = s \/ r.pc = "idle",
         r.pc = "tier" => r.of \in States
  PROVE  SourceInv'
<1>1. p \in Procs /\ p \notin Workers
  BY SourceAssumption DEF Procs
<1>2. Typed'
  BY <1>1, TypedParts, TouchTyped DEF Typed
<1>3. \A z \in Scopes : OneJob(z)'
  BY <1>1, JobsKept
<1>4. proc'[p] = r
  BY <1>1, TypedParts
<1>5. At(p)'
  BY <1>1, <1>4 DEF At
<1>6. QED BY <1>1, <1>2, <1>3, <1>5, TouchTyped, MoveKeeps

LEMMA RefreshKeeps ==
  ASSUME SourceInv, NEW p \in Callers, NEW s \in Scopes, NEW paths \in Asked[s],
         Refresh(p, s, paths)
  PROVE  SourceInv'
<1>1. PICK r : r = [Idle EXCEPT !.pc = "tier", !.scope = s, !.of = table'[s], !.paths = paths]
  OBVIOUS
<1>2. table'[s] \in States /\ paths \in SUBSET Path
  BY TouchTyped DEF Refresh, Path
<1>3. r \in ProcRec /\ r.pc = "tier" /\ r.scope = s /\ r.of \in States
  BY <1>1, <1>2 DEF Idle, ProcRec
<1>4. QED BY <1>1, <1>3, CallerTouches DEF Refresh

LEMMA ReadKeeps ==
  ASSUME SourceInv, NEW p \in Callers, NEW s \in Scopes, NEW paths \in Asked[s],
         Read(p, s, paths)
  PROVE  SourceInv'
<1>1. PICK r : r = [Idle EXCEPT !.pc = "schedule", !.scope = s]
  OBVIOUS
<1>2. r \in ProcRec /\ r.pc = "schedule" /\ r.scope = s
  BY <1>1 DEF Idle, ProcRec
<1>3. p \in Procs /\ proc[p] \in ProcRec
  BY TypedParts DEF Procs
<1>4. proc' = [proc EXCEPT ![p] = r] \/ proc' = [proc EXCEPT ![p] = proc[p]]
  BY <1>1, <1>3, TypedParts DEF Read
<1>5. QED BY <1>2, <1>3, <1>4, CallerTouches DEF Read

\* A thread that leaves the objects alone.
LEMMA StillKeeps ==
  ASSUME SourceInv, NEW p \in Procs, NEW r \in ProcRec, proc' = [proc EXCEPT ![p] = r],
         UNCHANGED <<table, state, paused, inFlight, queue>>, At(p)',
         p \in Workers => (r.pc = "idle" <=> proc[p].pc = "idle") /\ r.scope = proc[p].scope
  PROVE  SourceInv'
<1>1. Typed'
  BY TypedParts DEF Typed
<1>2. \A s \in Scopes : OneJob(s)'
  BY JobsKept
<1>3. QED BY <1>1, <1>2, MoveKeeps

LEMMA TierKeeps ==
  ASSUME SourceInv, NEW p \in Procs, Tier(p)
  PROVE  SourceInv'
<1>1. proc[p] \in ProcRec /\ At(p) /\ proc[p].pc = "tier" /\ p \notin Workers
      /\ proc[p].of \in States /\ proc[p].scope \in Scopes
  BY ProcFacts DEF Tier, At
<1>2. \E r : proc' = [proc EXCEPT ![p] = r] /\ (r = Idle \/ \E pc \in {"lock", "schedule"} : r = [proc[p] EXCEPT !.pc = pc])
  BY DEF Tier, Goes, Ends
<1>3. PICK r : /\ proc' = [proc EXCEPT ![p] = r]
               /\ r = Idle \/ \E pc \in {"lock", "schedule"} : r = [proc[p] EXCEPT !.pc = pc]
  BY <1>2
<1>4. r \in ProcRec /\ (r = Idle \/ (r.pc \in {"lock", "schedule"} /\ r.of \in States /\ r.scope \in Scopes))
  <2>1. CASE r = Idle
    BY <2>1, IdleTyped
  <2>2. ASSUME NEW pc \in {"lock", "schedule"}, r = [proc[p] EXCEPT !.pc = pc]
        PROVE  r \in ProcRec /\ r.pc = pc /\ r.of = proc[p].of /\ r.scope = proc[p].scope
    <3>1. PICK k : k = proc[p]
      OBVIOUS
    <3>2. k \in ProcRec /\ pc \in PCs /\ r = [k EXCEPT !.pc = pc]
      BY <1>1, <2>2, <3>1
    <3>3. r \in ProcRec /\ r.pc = pc /\ r.of = k.of /\ r.scope = k.scope
      BY <3>2 DEF ProcRec
    <3>4. QED BY <3>1, <3>3
  <2>3. QED BY <1>1, <1>3, <2>1, <2>2
<1>5. proc'[p] = r
  BY <1>3, TypedParts
<1>6. At(p)'
  BY <1>1, <1>4, <1>5 DEF At, Idle
<1>7. QED BY <1>1, <1>3, <1>4, <1>6, StillKeeps DEF Tier

LEMMA ScheduleKeeps ==
  ASSUME SourceInv, NEW p \in Procs, Schedule(p)
  PROVE  SourceInv'
<1>1. At(p) /\ proc[p].pc = "schedule" /\ p \notin Workers /\ proc[p].scope \in Scopes
  BY ProcFacts DEF Schedule, At
<1>2. PICK s : s = proc[p].scope
  OBVIOUS
<1>3. proc' = [proc EXCEPT ![p] = Idle] /\ proc'[p] = Idle /\ Idle \in ProcRec
  BY RecTyped, TypedParts, ProcFacts DEF Schedule, Ends
<1>4. At(p)'
  BY <1>1, <1>3 DEF At, Idle
<1>5. CASE UNCHANGED <<inFlight, queue>>
  BY <1>1, <1>3, <1>4, <1>5, StillKeeps DEF Schedule
<1>6. CASE /\ table[s] # None /\ s \notin inFlight
           /\ inFlight' = inFlight \cup {s}
           /\ queue' = queue \cup {[scope |-> s, of |-> table[s]]}
  <2>1. PICK j : j = [scope |-> s, of |-> table[s]]
    OBVIOUS
  <2>2. j \in Job /\ j.scope = s
    BY <1>1, <1>2, <1>6, <2>1, TypedParts DEF Job
  <2>3. Typed'
    BY <1>1, <1>2, <1>3, <1>6, <2>1, <2>2, TypedParts DEF Typed, Schedule
  <2>4. ASSUME NEW z \in Scopes PROVE OneJob(z)'
    <3>1. Serving(z)' = Serving(z)
      BY <1>1, <1>3, TypedParts DEF Serving, Procs
    <3>2. OneJob(z)
      BY DEF SourceInv
    <3>3. CASE z = s
      <4>1. Queued(z) = {} /\ Serving(z) = {}
        BY <1>6, <3>2, <3>3 DEF OneJob
      <4>2. Queued(z)' = {j}
        BY <1>6, <2>1, <2>2, <3>3, <4>1 DEF Queued
      <4>3. QED BY <1>6, <3>1, <3>3, <4>1, <4>2 DEF OneJob
    <3>4. CASE z # s
      <4>1. Queued(z)' = Queued(z)
        BY <1>6, <2>1, <2>2, <3>4 DEF Queued
      <4>2. QED BY <1>6, <3>1, <3>2, <3>4, <4>1 DEF OneJob
    <3>5. QED BY <3>3, <3>4
  <2>5. QED BY <1>3, <1>4, <2>3, <2>4, MoveKeeps DEF Schedule
<1>7. QED BY <1>2, <1>5, <1>6 DEF Schedule

LEMMA TakeKeeps ==
  ASSUME SourceInv, NEW p \in Workers, Take(p)
  PROVE  SourceInv'
<1>1. PICK j \in queue : /\ queue' = queue \ {j}
        /\ proc' = [proc EXCEPT ![p] = [Idle EXCEPT !.pc = "lock", !.scope = j.scope, !.of = j.of]]
  BY DEF Take
<1>2. j.scope \in Scopes /\ j.of \in States /\ p \in Procs /\ proc[p].pc = "idle"
  BY <1>1, TypedParts DEF Job, Take, Procs
<1>3. PICK r : r = [Idle EXCEPT !.pc = "lock", !.scope = j.scope, !.of = j.of]
  OBVIOUS
<1>4. r \in ProcRec /\ r.pc = "lock" /\ r.scope = j.scope /\ r.of = j.of
  BY <1>2, <1>3 DEF ProcRec, Idle
<1>5. proc' = [proc EXCEPT ![p] = r] /\ proc'[p] = r /\ \A q \in Procs : q # p => proc'[q] = proc[q]
  BY <1>1, <1>2, <1>3, TypedParts
<1>6. At(p)'
  BY <1>2, <1>4, <1>5 DEF At
<1>7. Typed'
  BY <1>1, <1>4, <1>5, <1>2, TypedParts DEF Typed, Take
<1>8. ASSUME NEW z \in Scopes PROVE OneJob(z)'
  <2>1. OneJob(z)
    BY DEF SourceInv
  <2>2. CASE z = j.scope
    <3>1. j \in Queued(z)
      BY <1>1, <2>2 DEF Queued
    <3>2. z \in inFlight /\ Queued(z) = {j} /\ Serving(z) = {}
      BY <2>1, <3>1 DEF OneJob
    <3>3. Queued(z)' = {}
      BY <1>1, <3>2 DEF Queued
    <3>4. Serving(z)' = {p}
      BY <1>4, <1>5, <2>2, <3>2 DEF Serving, Procs
    <3>5. QED BY <3>2, <3>3, <3>4 DEF OneJob, Take
  <2>3. CASE z # j.scope
    <3>1. Queued(z)' = Queued(z)
      BY <1>1, <2>3 DEF Queued
    <3>2. Serving(z)' = Serving(z)
      BY <1>2, <1>4, <1>5, <2>3 DEF Serving, Procs
    <3>3. QED BY <2>1, <3>1, <3>2 DEF OneJob, Take
  <2>4. QED BY <2>2, <2>3
<1>9. QED BY <1>2, <1>5, <1>6, <1>7, <1>8, MoveKeeps DEF Take

\* How a job or a wait ends.
LEMMA AfterFits ==
  ASSUME SourceInv, NEW p \in Procs, proc[p].pc \in {"lock", "wait"}
  PROVE  /\ After(p) \in ProcRec
         /\ IF p \in Workers THEN After(p).pc = "finish" /\ After(p).scope = proc[p].scope
            ELSE After(p).pc = "idle"
         /\ proc[p].scope \in Scopes
<1>1. proc[p].scope \in Scopes
  BY ProcFacts DEF At
<1>2. CASE p \in Workers
  BY <1>1, <1>2, RecTyped, ProcFacts DEF After, Idle
<1>3. CASE p \notin Workers
  BY <1>1, <1>3, RecTyped, ProcFacts DEF After, Idle
<1>4. QED BY <1>2, <1>3

\* A thread that writes the object it holds.
LEMMA OwnKeeps ==
  ASSUME SourceInv, NEW p \in Procs, NEW r \in ProcRec, proc' = [proc EXCEPT ![p] = r],
         state' \in [States -> StateRec],
         \A j \in States : j # proc[p].of => state'[j] = state[j],
         \A q \in Procs : q # p /\ proc[q].pc \in {"fetch", "wait"} => proc[q].of # proc[p].of,
         UNCHANGED <<table, inFlight, queue>>, paused' \in Nat, At(p)',
         p \in Workers => (r.pc = "idle" <=> proc[p].pc = "idle") /\ r.scope = proc[p].scope
  PROVE  SourceInv'
<1>1. Typed'
  BY TypedParts DEF Typed
<1>2. \A s \in Scopes : OneJob(s)'
  BY JobsKept
<1>3. ASSUME NEW q \in Procs, q # p, proc[q].of \in States
      PROVE  state'[proc[q].of] = state[proc[q].of] \/ proc[q].pc \notin {"fetch", "wait"}
  BY <1>3, TypedParts
<1>4. QED BY <1>1, <1>2, <1>3, MoveKeeps

LEMMA LockKeeps ==
  ASSUME SourceInv, NEW p \in Procs, Lock(p)
  PROVE  SourceInv'
<1>1. At(p) /\ proc[p].pc = "lock" /\ proc[p].scope \in Scopes /\ proc[p].of \in States
  BY ProcFacts DEF Lock, At
<1>2. CASE UNCHANGED state /\ proc' = [proc EXCEPT ![p] = After(p)]
  <2>1. PICK r : r = After(p)
    OBVIOUS
  <2>2. r \in ProcRec /\ IF p \in Workers THEN r.pc = "finish" /\ r.scope = proc[p].scope
                                          ELSE r.pc = "idle"
    BY <1>1, <2>1, AfterFits
  <2>3. proc' = [proc EXCEPT ![p] = r] /\ proc'[p] = r
    BY <1>2, <2>1, TypedParts
  <2>4. At(p)'
    BY <1>1, <2>2, <2>3 DEF At
  <2>5. UNCHANGED <<table, state, paused, inFlight, queue>>
    BY <1>2 DEF Lock
  <2>6. QED BY <1>1, <2>2, <2>3, <2>4, <2>5, StillKeeps
<1>3. CASE /\ ~Throttled(proc[p].scope, proc[p].of)
           /\ state' = [state EXCEPT ![proc[p].of].lock = p] /\ Goes(p, "fetch")
  <2>1. PICK i, r, k : /\ i = proc[p].of /\ r = [proc[p] EXCEPT !.pc = "fetch"]
                       /\ k = [state[i] EXCEPT !.lock = p]
    OBVIOUS
  <2>2. /\ r \in ProcRec /\ r.pc = "fetch" /\ r.of = i /\ r.scope = proc[p].scope
    BY <2>1, RecTyped, ProcFacts
  <2>3. i \in States /\ state[i] \in StateRec
    BY <1>1, <2>1, ProcFacts
  <2>4. /\ k \in StateRec /\ k.lock = p /\ k.rejected = state[i].rejected
        /\ k.attempt = state[i].attempt /\ k.wanted = state[i].wanted
    BY <2>1, <2>3 DEF StateRec
  <2>5. state' = [state EXCEPT ![i] = k] /\ state'[i] = k
    BY <1>3, <2>1, <2>3, TypedParts
  <2>6. proc' = [proc EXCEPT ![p] = r] /\ proc'[p] = r
    BY <1>3, <2>1, TypedParts DEF Goes
  <2>7. Due(i)
    <3>1. ~(state[i].rejected > 0) /\ ~(state[i].attempt # None /\ state[i].attempt.age < MinRefresh
                                         /\ state[i].wanted \subseteq state[i].attempt.paths)
      BY <1>3, <2>1 DEF Throttled
    <3>2. /\ state[i].rejected \in Nat
          /\ state[i].attempt # None => state[i].attempt.age \in Nat
      BY <2>3 DEF StateRec, Seen
    <3>3. QED BY <3>1, <3>2, SourceAssumption DEF Due
  <2>8. Due(i)'
    BY <2>4, <2>5, <2>7 DEF Due
  <2>9. At(p)'
    BY <1>1, <2>2, <2>3, <2>4, <2>5, <2>6, <2>8 DEF At
  <2>10. ASSUME NEW q \in Procs, q # p, proc[q].pc \in {"fetch", "wait"} PROVE proc[q].of # i
    <3>1. At(q) /\ state[i].lock = None /\ None \notin Procs
      BY <2>1, ProcFacts DEF Lock
    <3>2. QED BY <2>10, <3>1 DEF At
  <2>11. UNCHANGED <<table, inFlight, queue>> /\ paused' \in Nat
    BY TypedParts DEF Lock
  <2>12. (r.pc = "idle" <=> proc[p].pc = "idle") /\ r.scope = proc[p].scope
    BY <1>1, <2>2
  <2>13. state' \in [States -> StateRec] /\ \A j \in States : j # i => state'[j] = state[j]
    BY <2>3, <2>4, <2>5, TypedParts
  <2>14. \A q \in Procs : q # p /\ proc[q].pc \in {"fetch", "wait"} => proc[q].of # proc[p].of
    BY <2>1, <2>10
  <2>15. QED BY <2>1, <2>2, <2>6, <2>9, <2>11, <2>12, <2>13, <2>14, OwnKeeps
<1>4. QED BY <1>2, <1>3 DEF Lock

LEMMA StartKeeps ==
  ASSUME SourceInv, NEW p \in Procs, Start(p)
  PROVE  SourceInv'
<1>1. At(p) /\ proc[p].pc = "fetch" /\ proc[p].scope \in Scopes /\ proc[p].of \in States
      /\ state[proc[p].of].lock = p
  BY ProcFacts DEF Start, At
<1>2. PICK i, r, k : /\ i = proc[p].of
        /\ r = [proc[p] EXCEPT !.pc = "wait", !.paths = state[i].wanted, !.age = 0]
        /\ k = [state[i] EXCEPT !.attempt = [age |-> 0, paths |-> state[i].wanted]]
  OBVIOUS
<1>3. i \in States /\ state[i] \in StateRec /\ proc[p] \in ProcRec
  BY <1>1, <1>2, ProcFacts
<1>4. k \in StateRec /\ k.lock = p
  BY <1>1, <1>2, <1>3 DEF StateRec, Seen
<1>5. r \in ProcRec /\ r.pc = "wait" /\ r.of = i /\ r.scope = proc[p].scope
  BY <1>2, <1>3 DEF ProcRec, StateRec
<1>6. state' = [state EXCEPT ![i] = k] /\ state'[i] = k
  BY <1>2, <1>3, TypedParts DEF Start
<1>7. proc' = [proc EXCEPT ![p] = r] /\ proc'[p] = r
  BY <1>2, TypedParts DEF Start
<1>8. At(p)'
  BY <1>1, <1>3, <1>4, <1>5, <1>6, <1>7 DEF At
<1>9. ASSUME NEW q \in Procs, q # p, proc[q].pc \in {"fetch", "wait"} PROVE proc[q].of # i
  BY <1>1, <1>2, <1>9, LockExcludes
<1>10. UNCHANGED <<table, inFlight, queue>> /\ paused' \in Nat
  BY TypedParts DEF Start
<1>11. (r.pc = "idle" <=> proc[p].pc = "idle") /\ r.scope = proc[p].scope
  BY <1>1, <1>5
<1>12. state' \in [States -> StateRec] /\ \A j \in States : j # i => state'[j] = state[j]
  BY <1>3, <1>4, <1>6, TypedParts
<1>13. \A q \in Procs : q # p /\ proc[q].pc \in {"fetch", "wait"} => proc[q].of # proc[p].of
  BY <1>2, <1>9
<1>14. QED BY <1>2, <1>5, <1>7, <1>8, <1>10, <1>11, <1>12, <1>13, OwnKeeps

\* The end of a request.
LEMMA AnswerKeeps ==
  ASSUME SourceInv, NEW p \in Procs, proc[p].pc = "wait", proc' = [proc EXCEPT ![p] = After(p)],
         NEW k \in StateRec, state' = [state EXCEPT ![proc[p].of] = k],
         UNCHANGED <<table, inFlight, queue>>, paused' \in Nat
  PROVE  SourceInv'
<1>1. PICK i, r : i = proc[p].of /\ r = After(p)
  OBVIOUS
<1>2. At(p) /\ proc[p].scope \in Scopes /\ i \in States
  BY <1>1, ProcFacts DEF At
<1>3. r \in ProcRec /\ IF p \in Workers THEN r.pc = "finish" /\ r.scope = proc[p].scope
                                        ELSE r.pc = "idle"
  BY <1>1, AfterFits
<1>4. proc' = [proc EXCEPT ![p] = r] /\ proc'[p] = r /\ state' = [state EXCEPT ![i] = k]
  BY <1>1, TypedParts
<1>5. At(p)'
  BY <1>2, <1>3, <1>4 DEF At
<1>6. ASSUME NEW q \in Procs, q # p, proc[q].pc \in {"fetch", "wait"} PROVE proc[q].of # i
  BY <1>1, <1>6, LockExcludes
<1>7. p \in Workers => (r.pc = "idle" <=> proc[p].pc = "idle") /\ r.scope = proc[p].scope
  BY <1>3
<1>8. state' \in [States -> StateRec] /\ \A j \in States : j # i => state'[j] = state[j]
  BY <1>2, <1>4, TypedParts
<1>9. \A q \in Procs : q # p /\ proc[q].pc \in {"fetch", "wait"} => proc[q].of # proc[p].of
  BY <1>1, <1>6
<1>10. QED BY <1>1, <1>3, <1>4, <1>5, <1>7, <1>8, <1>9, OwnKeeps

LEMMA SucceedKeeps ==
  ASSUME SourceInv, NEW p \in Procs, Succeed(p)
  PROVE  SourceInv'
<1>1. PICK i, k : /\ i = proc[p].of
        /\ k = [state[i] EXCEPT !.snapshot = [age |-> proc[p].age, paths |-> proc[p].paths],
                                !.lock = None]
  OBVIOUS
<1>2. i \in States /\ state[i] \in StateRec /\ proc[p].age \in Nat /\ proc[p].paths \in SUBSET Path
  BY <1>1, ProcFacts DEF At, Succeed
<1>3. k \in StateRec
  BY <1>1, <1>2 DEF StateRec, Seen
<1>4. state' = [state EXCEPT ![proc[p].of] = k]
  BY <1>1, <1>2, TypedParts DEF Succeed
<1>5. QED BY <1>3, <1>4, AnswerKeeps, TypedParts DEF Succeed

LEMMA FailKeeps ==
  ASSUME SourceInv, NEW p \in Procs, NEW refused \in BOOLEAN, Fail(p, refused)
  PROVE  SourceInv'
<1>1. PICK left : left = Longer(0, (IF refused THEN RejectedRetry ELSE MinRefresh) - proc[p].age)
  OBVIOUS
<1>2. left \in Nat
  BY <1>1, ProcFacts, SourceAssumption DEF Longer
<1>3. PICK i, k : /\ i = proc[p].of
        /\ k = [state[i] EXCEPT !.lock = None,
                  !.rejected = IF proc[p].scope \in Agents /\ refused THEN left ELSE @]
  OBVIOUS
<1>4. i \in States /\ state[i] \in StateRec
  BY <1>3, ProcFacts DEF At, Fail
<1>5. k \in StateRec
  BY <1>2, <1>3, <1>4 DEF StateRec
<1>6. state' = [state EXCEPT ![proc[p].of] = k]
  BY <1>1, <1>3, <1>4, TypedParts DEF Fail
<1>7. paused' \in Nat
  BY <1>1, <1>2, TypedParts DEF Fail, Longer
<1>8. QED BY <1>5, <1>6, <1>7, AnswerKeeps DEF Fail

LEMMA FinishKeeps ==
  ASSUME SourceInv, NEW p \in Procs, Finish(p)
  PROVE  SourceInv'
<1>1. PICK s : s = proc[p].scope
  OBVIOUS
<1>2. p \in Workers /\ s \in Scopes /\ proc[p].pc = "finish"
  BY <1>1, ProcFacts DEF At, Finish
<1>3. proc' = [proc EXCEPT ![p] = Idle] /\ proc'[p] = Idle /\ Idle \in ProcRec
      /\ \A q \in Procs : q # p => proc'[q] = proc[q]
  BY RecTyped, TypedParts, ProcFacts DEF Finish, Ends
<1>4. Idle.pc = "idle"
  BY DEF Idle
<1>5. At(p)'
  BY <1>2, <1>3, <1>4 DEF At
<1>6. Typed'
  BY <1>3, TypedParts DEF Typed, Finish
<1>7. ASSUME NEW z \in Scopes PROVE OneJob(z)'
  <2>1. OneJob(z) /\ Queued(z)' = Queued(z)
    BY DEF SourceInv, Queued, Finish
  <2>2. CASE z = s
    <3>1. p \in Serving(z)
      BY <1>1, <1>2, <2>2 DEF Serving
    <3>2. Queued(z) = {} /\ Serving(z) = {p}
      BY <2>1, <3>1 DEF OneJob
    <3>3. Serving(z)' = {}
      BY <1>3, <1>4, <3>2 DEF Serving, Procs
    <3>4. QED BY <1>1, <2>1, <2>2, <3>2, <3>3 DEF OneJob, Finish
  <2>3. CASE z # s
    <3>1. Serving(z)' = Serving(z)
      BY <1>1, <1>2, <1>3, <1>4, <2>3 DEF Serving, Procs
    <3>2. QED BY <1>1, <2>1, <2>3, <3>1 DEF OneJob, Finish
  <2>4. QED BY <2>2, <2>3
<1>8. QED BY <1>3, <1>5, <1>6, <1>7, MoveKeeps DEF Finish

LEMMA AgeTyped ==
  ASSUME NEW x \in Seen, NEW limit \in Nat
  PROVE  /\ Older(x, limit) \in Seen
         /\ Older(x, limit) # None =>
              /\ x # None /\ Older(x, limit).paths = x.paths
              /\ x.age \in Nat /\ Older(x, limit).age \in Nat /\ Older(x, limit).age >= x.age
<1>1. CASE x = None
  BY <1>1 DEF Older, Seen
<1>2. CASE x # None
  <2>1. x \in [age : Nat, paths : SUBSET Path]
    BY <1>2 DEF Seen
  <2>2. PICK y : y = [x EXCEPT !.age = IF @ < limit THEN @ + 1 ELSE @]
    OBVIOUS
  <2>3. /\ y \in [age : Nat, paths : SUBSET Path] /\ y.paths = x.paths /\ y.age >= x.age
        /\ x.age \in Nat /\ y.age \in Nat
    BY <2>1, <2>2
  <2>4. Older(x, limit) = y
    BY <1>2, <2>2 DEF Older
  <2>5. QED BY <1>2, <2>3, <2>4 DEF Seen
<1>3. QED BY <1>1, <1>2

\* An object as time passes.
LEMMA StateAges ==
  ASSUME SourceInv, Tick, NEW i \in States
  PROVE  /\ state'[i] \in StateRec
         /\ ~Free(i) => /\ state'[i].lock = state[i].lock
                        /\ Due(i) => Due(i)'
<1>1. PICK k : k = Kept[i]
  OBVIOUS
<1>2. k \in StateRec
  BY <1>1, TypedParts DEF Kept, NewState, StateRec, Seen
<1>3. PICK a, b, c : a = Older(k.snapshot, MaxStaleness) /\ b = Older(k.attempt, MinRefresh)
                       /\ c = Less(k.rejected)
  OBVIOUS
<1>4. k.snapshot \in Seen /\ k.attempt \in Seen /\ k.rejected \in Nat
      /\ MaxStaleness \in Nat /\ MinRefresh \in Nat
  BY <1>2, SourceAssumption DEF StateRec
<1>5. a \in Seen /\ b \in Seen /\ c \in Nat /\ (k.rejected = 0 => c = 0)
  <2>1. a \in Seen /\ b \in Seen
    BY <1>3, <1>4, AgeTyped
  <2>2. c \in Nat /\ (k.rejected = 0 => c = 0)
    BY <1>3, <1>4 DEF Less
  <2>3. QED BY <2>1, <2>2
<1>6. state'[i] = [k EXCEPT !.snapshot = a, !.attempt = b, !.rejected = c]
  BY <1>1, <1>3 DEF Tick
<1>7. /\ state'[i] \in StateRec /\ state'[i].lock = k.lock /\ state'[i].attempt = b
      /\ state'[i].rejected = c /\ state'[i].wanted = k.wanted
  BY <1>2, <1>5, <1>6 DEF StateRec
<1>8. ASSUME ~Free(i), Due(i) PROVE Due(i)'
  <2>1. k = state[i]
    BY <1>1, <1>8 DEF Kept
  <2>2. b # None => /\ k.attempt # None /\ b.paths = k.attempt.paths
                    /\ k.attempt.age \in Nat /\ b.age \in Nat /\ b.age >= k.attempt.age
    BY <1>3, <1>4, AgeTyped
  <2>3. QED BY <1>4, <1>5, <1>7, <1>8, <2>1, <2>2 DEF Due
<1>9. ~Free(i) => k = state[i]
  BY <1>1 DEF Kept
<1>10. QED BY <1>7, <1>8, <1>9

LEMMA TickKeeps ==
  ASSUME SourceInv, Tick
  PROVE  SourceInv'
<1>1. ASSUME NEW p \in Procs
      PROVE  /\ proc'[p] \in ProcRec /\ proc'[p].pc = proc[p].pc /\ proc'[p].of = proc[p].of
             /\ proc'[p].scope = proc[p].scope
  <2>1. PICK k : k = proc[p]
    OBVIOUS
  <2>2. k \in ProcRec
    BY <2>1, TypedParts
  <2>3. proc'[p] = IF k.pc = "wait" THEN [k EXCEPT !.age = @ + 1] ELSE k
    BY <2>1 DEF Tick
  <2>4. QED BY <2>1, <2>2, <2>3 DEF ProcRec
<1>2. state' \in [States -> StateRec]
  <2>1. state' = [i \in States |-> state'[i]]
    BY DEF Tick
  <2>2. QED BY <2>1, StateAges
<1>3. proc' \in [Procs -> ProcRec]
  <2>1. proc' = [p \in Procs |-> proc'[p]]
    BY DEF Tick
  <2>2. QED BY <1>1, <2>1
<1>4. Typed'
  <2>1. paused' = Less(paused) /\ paused \in Nat
    BY TypedParts DEF Tick
  <2>2. paused' \in Nat
    BY <2>1 DEF Less
  <2>3. UNCHANGED <<table, queue, inFlight>>
    BY DEF Tick
  <2>4. QED BY <1>2, <1>3, <2>2, <2>3, TypedParts DEF Typed
<1>5. ASSUME NEW z \in Scopes PROVE OneJob(z)'
  <2>1. Serving(z)' = Serving(z) /\ Queued(z)' = Queued(z)
    BY <1>1 DEF Serving, Queued, Tick, Procs
  <2>2. QED BY <2>1 DEF SourceInv, OneJob, Tick
<1>6. ASSUME NEW p \in Procs PROVE At(p)'
  <2>1. At(p)
    BY DEF SourceInv
  <2>2. PICK i : i = proc[p].of
    OBVIOUS
  <2>3. CASE i \in States
    <3>1. ~Free(i)
      BY <2>2 DEF Free
    <3>2. state'[i].lock = state[i].lock /\ (Due(i) => Due(i)')
      BY <2>3, <3>1, StateAges
    <3>3. QED BY <1>1, <2>1, <2>2, <2>3, <3>2 DEF At
  <2>4. CASE i \notin States
    BY <1>1, <2>1, <2>2, <2>4 DEF At
  <2>5. QED BY <2>3, <2>4
<1>7. QED BY <1>4, <1>5, <1>6 DEF SourceInv

LEMMA SourceNext ==
  ASSUME SourceInv, [Next]_vars
  PROVE  SourceInv'
<1>1. ASSUME NEW p \in Callers, NEW s \in Scopes, NEW paths \in Asked[s],
             Refresh(p, s, paths) \/ Read(p, s, paths)
      PROVE  SourceInv'
  BY <1>1, RefreshKeeps, ReadKeeps
<1>2. ASSUME NEW p \in Workers, Take(p) PROVE SourceInv'
  BY <1>2, TakeKeeps
<1>3. ASSUME NEW p \in Procs, Proceed(p) PROVE SourceInv'
  <2>1. \/ Tier(p) \/ Schedule(p) \/ Lock(p) \/ Start(p) \/ Succeed(p) \/ Finish(p)
        \/ \E refused \in BOOLEAN : Fail(p, refused)
    BY <1>3 DEF Proceed
  <2>2. QED BY <2>1, TierKeeps, ScheduleKeeps, LockKeeps, StartKeeps, SucceedKeeps, FinishKeeps,
                FailKeeps
<1>4. CASE Tick
  BY <1>4, TickKeeps
<1>5. CASE Turn \/ UNCHANGED vars
  <2>1. UNCHANGED <<table, recent, state, paused, inFlight, queue, proc>>
    BY <1>5 DEF Turn, vars
  <2>2. Typed' /\ (\A s \in Scopes : OneJob(s)') /\ \A p \in Procs : At(p)'
    BY <2>1 DEF SourceInv, Typed, OneJob, Queued, Serving, At, Due
  <2>3. QED BY <2>2 DEF SourceInv
<1>6. QED BY <1>1, <1>2, <1>3, <1>4, <1>5 DEF Next

LEMMA SourceInit ==
  ASSUME Init
  PROVE  SourceInv
<1>1. NewState \in StateRec
  BY DEF NewState, StateRec, Seen
<1>2. Idle \in ProcRec /\ Idle.pc = "idle"
  BY IdleTyped DEF Idle
<1>3. Typed
  BY <1>1, <1>2 DEF Init, Typed
<1>4. \A s \in Scopes : OneJob(s)
  BY <1>2 DEF Init, OneJob, Queued, Serving, Procs
<1>5. \A p \in Procs : At(p)
  BY <1>2 DEF Init, At
<1>6. QED BY <1>3, <1>4, <1>5 DEF SourceInv

LEMMA SourceHolds == Spec => []SourceInv
BY SourceInit, SourceNext, PTL DEF Spec

\* The marks of fetches in flight are true (usage_source.py, _schedule and _finish):
\* a scope is marked exactly while one job for it is queued or with a worker.
THEOREM MarksAreTrue == Spec => []InFlightHasJob
<1>1. SourceInv => InFlightHasJob
  <2>1. SUFFICES ASSUME SourceInv, NEW s \in Scopes
                 PROVE  Cardinality(Queued(s)) + Cardinality(Serving(s))
                          = IF s \in inFlight THEN 1 ELSE 0
    BY DEF InFlightHasJob, Queued, Serving
  <2>2. \A x : Cardinality({x}) = 1
    BY FS_Singleton
  <2>3. Cardinality({}) = 0
    BY FS_EmptySet
  <2>4. OneJob(s)
    BY <2>1 DEF SourceInv
  <2>5. CASE s \notin inFlight
    BY <2>3, <2>4, <2>5 DEF OneJob
  <2>6. ASSUME s \in inFlight, NEW x,
               (Queued(s) = {x} /\ Serving(s) = {}) \/ (Queued(s) = {} /\ Serving(s) = {x})
        PROVE  Cardinality(Queued(s)) + Cardinality(Serving(s)) = 1
    <3>1. Cardinality({x}) = 1 /\ 0 + 1 = 1 /\ 1 + 0 = 1
      BY <2>2
    <3>2. CASE Queued(s) = {x} /\ Serving(s) = {}
      BY <2>3, <3>1, <3>2
    <3>3. CASE Queued(s) = {} /\ Serving(s) = {x}
      BY <2>3, <3>1, <3>3
    <3>4. QED BY <2>6, <3>2, <3>3
  <2>7. QED BY <2>4, <2>5, <2>6 DEF OneJob
<1>2. QED BY <1>1, SourceHolds, PTL

\* Asking is spaced (usage_source.py, _fetch_now and _throttled_locked): no thread
\* asks for a scope, whoever else wanted it and however long it waited for the lock,
\* while the scope's back-off or its last attempt stands against that.
THEOREM AskingIsSpaced == Spec => SpacedAttempts
<1>1. SourceInv => [\A p \in Procs : proc[p].pc = "fetch" /\ proc'[p].pc = "wait" =>
       LET i == proc[p].of
       IN  /\ state[i].rejected = 0
           /\ state[i].attempt # None =>
                \/ state[i].attempt.age >= MinRefresh
                \/ ~(state[i].wanted \subseteq state[i].attempt.paths)]_vars
  BY DEF SourceInv, At, Due
<1>2. QED BY <1>1, SourceHolds, PTL DEF SpacedAttempts
=============================================================================
