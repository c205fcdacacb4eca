---------------------------- MODULE CollectorKeys ----------------------------
(* The collector's view of the API keys (hexgatebiscuitauth/cache.go): one     *)
(* snapshot of the live rows, read again on a timer and trusted for so long,   *)
(* and what extension.go answers and logs from it.  Times are ages.            *)
EXTENDS Naturals, FiniteSetsExt

CONSTANTS
  None, Keys, Requests,
  PollInterval, MaxStaleness, LoadTimeout,
  Horizon       \* bound: ages are counted no further

\* A query at work: its age, and the rows once it has read them.
Loads == [age : 0..LoadTimeout, rows : (SUBSET Keys) \cup {None}]

\* Of the constants; assumed by the modules that give them values.
CollectorAssumption ==
  /\ None \notin Nat \cup Loads /\ \A K \in SUBSET Keys : K # None
  /\ {PollInterval, LoadTimeout} \subseteq Nat \ {0}
  /\ MaxStaleness \in Nat /\ MaxStaleness >= PollInterval
  /\ Horizon \in Nat /\ Horizon > MaxStaleness + LoadTimeout

VARIABLES
  revoked,      \* the rows: None while live, else how long ago it was revoked
  snapshot,     \* the keys and the age of takenAt; None before the first load
  timer, due,   \* the ticker and its channel, which holds one tick
  load,         \* the query at work
  unavailable,  \* the flag of the outage that has been logged
  req,          \* a request between its lookup and the flag
  failed,       \* history: keys since whose revocation a load failed
  answered,     \* history: a request was answered since the last log
  silent        \* history: an outage that a request met was never logged

vars == <<revoked, snapshot, timer, due, load, unavailable, req, failed, answered, silent>>

TypeOK ==
  /\ revoked \in [Keys -> 0..Horizon \cup {None}]
  /\ snapshot \in [keys : SUBSET Keys, age : 0..Horizon]
  /\ timer \in 0..PollInterval - 1 /\ due \in BOOLEAN
  /\ load \in Loads \cup {None}
  /\ req \in [Requests -> {"none", "trusted", "stale"}]
  /\ failed \subseteq Keys
  /\ {unavailable, answered, silent} \subseteq BOOLEAN

\* start() has loaded the rows, or the collector has not come up.
Init ==
  /\ revoked = [k \in Keys |-> None] /\ failed = {}
  /\ snapshot = [keys |-> Keys, age |-> 0]
  /\ timer = 0 /\ due = FALSE /\ load = None
  /\ unavailable = FALSE /\ req = [r \in Requests |-> "none"]
  /\ answered = FALSE /\ silent = FALSE

Older(age) == IF age < Horizon THEN age + 1 ELSE age

\* The context ends a query after its timeout, and the poller is scheduled.
Tick ==
  /\ load # None => load.age < LoadTimeout
  /\ ~(due /\ load = None)
  /\ revoked' = [k \in Keys |-> IF revoked[k] = None THEN None ELSE Older(revoked[k])]
  /\ snapshot' = [snapshot EXCEPT !.age = Older(@)]
  /\ load' = IF load = None THEN None ELSE [load EXCEPT !.age = @ + 1]
  /\ timer' = (timer + 1) % PollInterval
  /\ due' = (due \/ timer' = 0)
  /\ UNCHANGED <<unavailable, req, failed, answered, silent>>

Revoke(k) ==
  /\ revoked[k] = None
  /\ revoked' = [revoked EXCEPT ![k] = 0]
  /\ UNCHANGED <<snapshot, timer, due, load, unavailable, req, failed, answered, silent>>

-----------------------------------------------------------------------------
(* The poller.                                                               *)

StartLoad ==
  /\ due /\ load = None
  /\ due' = FALSE /\ load' = [age |-> 0, rows |-> None]
  /\ UNCHANGED <<revoked, snapshot, timer, unavailable, req, failed, answered, silent>>

\* One statement reads all live rows.
ReadRows ==
  /\ load # None /\ load.rows = None
  /\ load' = [load EXCEPT !.rows = {k \in Keys : revoked[k] = None}]
  /\ UNCHANGED <<revoked, snapshot, timer, due, unavailable, req, failed, answered, silent>>

Loaded ==
  /\ load # None /\ load.rows # None
  /\ snapshot' = [keys |-> load.rows, age |-> 0]
  /\ load' = None
  /\ UNCHANGED <<revoked, timer, due, unavailable, req, failed, answered, silent>>

\* (Mutant) A failed load renews the trust in the old snapshot.
LoadFailsTrusting ==
  /\ load # None
  /\ load' = None /\ snapshot' = [snapshot EXCEPT !.age = 0]
  /\ failed' = failed \cup {k \in Keys : revoked[k] # None}
  /\ UNCHANGED <<revoked, timer, due, unavailable, req, answered, silent>>

LoadFails ==
  /\ load # None
  /\ load' = None
  /\ failed' = failed \cup {k \in Keys : revoked[k] # None}
  /\ UNCHANGED <<revoked, snapshot, timer, due, unavailable, req, answered, silent>>

-----------------------------------------------------------------------------
(* A request whose key has verified.                                         *)

\* (Mutant) The age of the snapshot is of no interest.
TrustedForGood == TRUE

Trusted == snapshot.age <= MaxStaleness

Accepted(k) == Trusted /\ k \in snapshot.keys

\* A key that is unknown is an answer too: the snapshot is trusted.
Lookup(r) ==
  /\ req[r] = "none"
  /\ req' = [req EXCEPT ![r] = IF Trusted THEN "trusted" ELSE "stale"]
  /\ UNCHANGED <<revoked, snapshot, timer, due, load, unavailable, failed, answered, silent>>

\* (Mutant) The flag stays set when the snapshot is trusted again.
AnsweredUnmarked(r) ==
  /\ req[r] = "trusted"
  /\ req' = [req EXCEPT ![r] = "none"]
  /\ answered' = TRUE
  /\ UNCHANGED <<revoked, snapshot, timer, due, load, unavailable, failed, silent>>

\* markAvailable, on every path that proves the snapshot.
Answered(r) ==
  /\ req[r] = "trusted"
  /\ req' = [req EXCEPT ![r] = "none"]
  /\ unavailable' = FALSE /\ answered' = TRUE
  /\ UNCHANGED <<revoked, snapshot, timer, due, load, failed, silent>>

\* The first refusal of an outage logs it.
Refused(r) ==
  /\ req[r] = "stale"
  /\ req' = [req EXCEPT ![r] = "none"]
  /\ unavailable' = TRUE
  /\ answered' = IF unavailable THEN answered ELSE FALSE
  /\ silent' = (silent \/ (unavailable /\ answered))
  /\ UNCHANGED <<revoked, snapshot, timer, due, load, failed>>

Next ==
  \/ Tick \/ StartLoad \/ ReadRows \/ Loaded \/ LoadFails
  \/ \E k \in Keys : Revoke(k)
  \/ \E r \in Requests : Lookup(r) \/ Answered(r) \/ Refused(r)

Spec == Init /\ [][Next]_vars

-----------------------------------------------------------------------------

\* A revoked key is accepted no longer than the snapshot may be trusted and
\* one load takes; where no load has failed since, no longer than from one poll
\* to the end of the next.
RevocationsReach ==
  \A k \in Keys : (Accepted(k) /\ revoked[k] # None) =>
    /\ revoked[k] <= MaxStaleness + LoadTimeout
    /\ k \notin failed => revoked[k] <= Max({PollInterval, LoadTimeout}) + LoadTimeout

\* An outage that refuses a request is in the log, unless no request was
\* answered since the last one was.
OutagesAreLogged == ~silent
=============================================================================
