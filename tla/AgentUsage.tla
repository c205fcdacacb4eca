----------------------------- MODULE AgentUsage -----------------------------
(***************************************************************************)
(* A cap on an agent's runs across processes,                              *)
(*   admission: agent_usage.invocations_<window> < Cap,                     *)
(* from the start of a run to the decision that counts it: the gate at the  *)
(* run boundary (hexgate/security/agent_gate.py), the count of this process *)
(* (hexgate/runtime/agent_usage.py), the spans that carry it to the         *)
(* platform, the platform's memo of its reads (features/usage/service.py),  *)
(* and the snapshot both terms are combined from (usage_source.py).         *)
(*                                                                         *)
(* The platform learns of a run up to Lag after it started.  So a decision  *)
(* adds what the platform counted to what this process recorded since       *)
(* Margin before it asked.                                                  *)
(***************************************************************************)
EXTENDS Integers, FiniteSets

CONSTANTS
  Runs,            \* runs of the agent in this process
  Others,          \* runs of the agent in other processes
  Cap,             \* the constraint of the policy that has one
  Window,          \* the window of its usage path
  Margin,          \* USAGE_INGEST_MARGIN_SECONDS
  MaxStaleness,    \* age at which a snapshot is no longer used
  OnUnavailable,   \* "allow" or "deny"
  Lag,             \* bound: of the span pipeline
  ReadTimeout,     \* USAGE_READ_TIMEOUT_SECONDS, of the platform's query
  MemoTTL,         \* USAGE_MEMO_TTL_SECONDS
  MaxNow,          \* bound: the clock
  None

\* A read of the platform: the runs it counted; at, when its query began, and
\* expires, when the memo drops it, None while the query runs.
Memo == [counted : SUBSET (Runs \cup Others), at : Nat, expires : Nat \cup {None}]

\* Of the constants; assumed by the modules that give them values.
UsageAssumption ==
  /\ {Cap, Window, MaxStaleness, Lag, ReadTimeout, MemoTTL, MaxNow} \subseteq Nat
  /\ Margin \in Nat /\ Margin >= Lag + ReadTimeout + MemoTTL /\ MemoTTL > 0
  /\ OnUnavailable \in {"allow", "deny"}
  /\ Runs \cap Others = {} /\ IsFiniteSet(Runs \cup Others)
  /\ None \notin Nat \cup Runs \cup Memo /\ \A E \in SUBSET (Runs \cup Others) : E # None

VARIABLES
  now,
  policy,          \* the enforcer's engine: "capped", or "open" to everybody
  ledger,          \* whether the ledger of this process is enabled
  run,             \* the runs of this process
  started,         \* every run that started: when, or None
  recorded,        \* those the ledger of this process counted
  ingested,        \* those the platform counts
  memo,            \* the platform's last read, or None
  fetch,           \* this process's request for it, or None
  snapshot         \* its last answer, or None

vars == <<now, policy, ledger, run, started, recorded, ingested, memo, fetch, snapshot>>

\* A request: when it was made, and the answer it was given, None while it waits
\* for the query that runs.
Fetch == [at : Nat, answer : (SUBSET (Runs \cup Others)) \cup {None}]

\* The end of a run changes no usage: an open one stays open here.
PCs == {"new", "deciding", "admitted", "open", "refused"}

Init ==
  /\ now = 0
  /\ policy \in {"capped", "open"}
  /\ ledger = (policy = "capped")
  /\ run = [r \in Runs |-> "new"]
  /\ started = [e \in Runs \cup Others |-> None]
  /\ recorded = {} /\ ingested = {}
  /\ memo = None /\ fetch = None /\ snapshot = None

-----------------------------------------------------------------------------
(* What a decision reads.                                                  *)

StartedSince(E, instant) == {e \in E : started[e] # None /\ started[e] >= instant}

\* UsageLedger.since and .within.
LocalSince(instant) == Cardinality(StartedSince(recorded, instant))

\* _own_invocation, of a run that recorded itself: it is left out while it can
\* be in the window.
OwnInvocation(own) ==
  IF own # None /\ own \in recorded /\ now - started[own] < Window THEN 1 ELSE 0

Usable == snapshot # None /\ now - snapshot.at < MaxStaleness

Floored(n) == IF n > 0 THEN n ELSE 0

\* (Mutant) The local term begins at the snapshot.
CombinedAtFetch(own) ==
  Floored(Cardinality(snapshot.answer) + LocalSince(snapshot.at) - OwnInvocation(own))

\* combined_namespace.
Combined(own) ==
  Floored(Cardinality(snapshot.answer) + LocalSince(snapshot.at - Margin) - OwnInvocation(own))

\* _fallback: the ledger alone, or nothing under deny.
LedgerOnly(own) == Floored(LocalSince(now - Window) - OwnInvocation(own))

Unavailable == ~Usable /\ OnUnavailable = "deny"

\* PlatformUsageSource.read, for a decision inside the run `own', or for an
\* admission (None).
Reading(own) == IF Usable THEN Combined(own) ELSE LedgerOnly(own)

-----------------------------------------------------------------------------
(* The run boundary.  Its refresh of the policy may swap the engine any     *)
(* time, from a thread of another run; its refresh of the usage may fail.   *)

\* PolicyEnforcer.policy: a ledger that is on stays on.
SwapPolicy ==
  /\ policy' \in {"capped", "open"} \ {policy}
  /\ ledger' = (ledger \/ policy' = "capped")
  /\ UNCHANGED <<now, run, started, recorded, ingested, memo, fetch, snapshot>>

Goes(r, pc) == run' = [run EXCEPT ![r] = pc]

\* check_admission, its first read of the policy.
CheckDeclares(r) ==
  /\ run[r] = "new"
  /\ Goes(r, IF policy = "capped" THEN "deciding" ELSE "admitted")
  /\ UNCHANGED <<now, policy, ledger, started, recorded, ingested, memo, fetch, snapshot>>

\* (Mutant) An admission inside a run leaves that run out.
DecideInsideParent(r) ==
  /\ run[r] = "deciding"
  /\ \E parent \in {q \in Runs : run[q] = "open"} \cup {None} :
       IF policy = "capped" /\ ~Unavailable /\ Reading(parent) < Cap
       THEN Goes(r, "admitted") ELSE Goes(r, "refused")
  /\ UNCHANGED <<now, policy, ledger, started, recorded, ingested, memo, fetch, snapshot>>

\* AgentGate._decide, the second: PolicyEnforcer.decide with the engine of now.
\* The key agent.run is denied by a policy that does not declare it.
Decide(r) ==
  /\ run[r] = "deciding"
  /\ IF policy = "capped" /\ ~Unavailable /\ Reading(None) < Cap
     THEN Goes(r, "admitted") ELSE Goes(r, "refused")
  /\ UNCHANGED <<now, policy, ledger, started, recorded, ingested, memo, fetch, snapshot>>

\* run_scope: recorded where the ledger is on, and reported to the platform.
Open(r) ==
  /\ run[r] = "admitted"
  /\ Goes(r, "open")
  /\ started' = [started EXCEPT ![r] = now]
  /\ recorded' = IF ledger THEN recorded \cup {r} ELSE recorded
  /\ UNCHANGED <<now, policy, ledger, ingested, memo, fetch, snapshot>>

-----------------------------------------------------------------------------
(* The platform.                                                           *)

StartElsewhere(e) ==
  /\ started[e] = None
  /\ started' = [started EXCEPT ![e] = now]
  /\ UNCHANGED <<now, policy, ledger, run, recorded, ingested, memo, fetch, snapshot>>

Ingest(e) ==
  /\ started[e] # None /\ e \notin ingested
  /\ ingested' = ingested \cup {e}
  /\ UNCHANGED <<now, policy, ledger, run, started, recorded, memo, fetch, snapshot>>

Pending == memo # None /\ memo.expires = None

Counted == StartedSince(ingested, now - Window)

\* UsageMemo.get_or_load, asked by another process: a query that runs, or ran
\* a moment ago, is shared; read_usage counts what is ingested when it begins.
MemoServes == memo # None /\ (Pending \/ now < memo.expires)

NewRead == [counted |-> Counted, at |-> now, expires |-> None]

AskElsewhere ==
  /\ ~MemoServes
  /\ memo' = NewRead
  /\ UNCHANGED <<now, policy, ledger, run, started, recorded, ingested, fetch, snapshot>>

\* _fetch of this process: one at a time, timed from before it asks.
Ask ==
  /\ policy = "capped" /\ fetch = None
  /\ IF MemoServes
     THEN /\ UNCHANGED memo
          /\ fetch' = [at |-> now, answer |-> IF Pending THEN None ELSE memo.counted]
     ELSE /\ memo' = NewRead
          /\ fetch' = [at |-> now, answer |-> None]
  /\ UNCHANGED <<now, policy, ledger, run, started, recorded, ingested, snapshot>>

\* (Mutant) A read stays in the memo as long as it took once more.
SettleLate ==
  /\ Pending
  /\ memo' = [memo EXCEPT !.expires = now + MemoTTL + Margin]
  /\ fetch' = IF fetch # None /\ fetch.answer = None
              THEN [fetch EXCEPT !.answer = memo.counted] ELSE fetch
  /\ UNCHANGED <<now, policy, ledger, run, started, recorded, ingested, snapshot>>

\* _settle: the time to live runs from the end of the query.
Settle ==
  /\ Pending
  /\ memo' = [memo EXCEPT !.expires = now + MemoTTL]
  /\ fetch' = IF fetch # None /\ fetch.answer = None
              THEN [fetch EXCEPT !.answer = memo.counted] ELSE fetch
  /\ UNCHANGED <<now, policy, ledger, run, started, recorded, ingested, snapshot>>

\* The query fails, or is given up after ReadTimeout: everybody's.
ReadFails ==
  /\ Pending
  /\ memo' = None
  /\ fetch' = IF fetch # None /\ fetch.answer = None THEN None ELSE fetch
  /\ UNCHANGED <<now, policy, ledger, run, started, recorded, ingested, snapshot>>

\* The answer arrives; the snapshot is as old as the request.
Answer ==
  /\ fetch # None /\ fetch.answer # None
  /\ snapshot' = fetch
  /\ fetch' = None
  /\ UNCHANGED <<now, policy, ledger, run, started, recorded, ingested, memo>>

\* It does not: last-good stays.
FetchFails ==
  /\ fetch # None
  /\ fetch' = None
  /\ UNCHANGED <<now, policy, ledger, run, started, recorded, ingested, memo, snapshot>>

\* No span takes longer than Lag, no query longer than ReadTimeout.
Tick ==
  /\ now < MaxNow
  /\ \A e \in Runs \cup Others :
       started[e] # None /\ e \notin ingested => now - started[e] < Lag
  /\ Pending => now - memo.at < ReadTimeout
  /\ now' = now + 1
  /\ UNCHANGED <<policy, ledger, run, started, recorded, ingested, memo, fetch, snapshot>>

Next ==
  \/ \E r \in Runs : CheckDeclares(r) \/ Decide(r) \/ Open(r)
  \/ SwapPolicy
  \/ \E e \in Others : StartElsewhere(e)
  \/ \E e \in Runs \cup Others : Ingest(e)
  \/ AskElsewhere \/ Ask \/ Settle \/ ReadFails \/ Answer \/ FetchFails
  \/ Tick

Spec == Init /\ [][Next]_vars

-----------------------------------------------------------------------------
(* Properties.                                                             *)

TypeOK ==
  /\ now \in 0..MaxNow
  /\ policy \in {"capped", "open"} /\ ledger \in BOOLEAN
  /\ run \in [Runs -> PCs]
  /\ started \in [Runs \cup Others -> 0..MaxNow \cup {None}]
  /\ recorded \subseteq Runs /\ ingested \subseteq Runs \cup Others
  /\ memo = None \/ memo \in Memo
  /\ fetch = None \/ fetch \in Fetch
  /\ snapshot # None => snapshot \in Fetch /\ snapshot.answer # None

InWindow(E) == StartedSince(E, now - Window)

\* The runs a decision must know of: those this process recorded, and, with a
\* snapshot, those elsewhere that started Margin before it or earlier.
MustCount(own) ==
  (InWindow(recorded) \ {own}) \cup
  (IF Usable THEN {e \in InWindow(Others) : started[e] <= snapshot.at - Margin} ELSE {})

\* Whatever is still in the pipeline, memoized or on its way, and though a run
\* leaves its own invocation out, a decision never reads fewer runs than there
\* are: the two terms overlap, they have no gap.
NeverUndercounts ==
  \A own \in {None} \cup {r \in Runs : run[r] = "open"} :
    Reading(own) >= Cardinality(MustCount(own))

\* So the runs that pass the cap are those admitted before others opened: none is
\* admitted once a full cap of runs was there to be counted, an enclosing run
\* included.
AdmittedBelowCap ==
  [][\A r \in Runs : run[r] = "deciding" /\ run'[r] = "admitted" =>
       Cardinality(MustCount(None)) < Cap]_vars

=============================================================================
