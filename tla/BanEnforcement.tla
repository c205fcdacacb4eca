--------------------------- MODULE BanEnforcement ---------------------------
(***************************************************************************)
(* The kill switch, from the admin who bans an agent or a user to the run  *)
(* that is refused: ban rows and their feed on the platform                *)
(* (features/bans/service.py, router.py), and in the SDK the ban source    *)
(* shared by the gates of one API key and the gate at the boundary of each *)
(* run (hexgate/security/bans.py).                                         *)
(*                                                                         *)
(* Fetches are serialised by the lock of the source; the registry that     *)
(* shares the source is a plain dict, read and written by whichever thread *)
(* builds a gate.  A fetch never raises: it falls back on the last set it  *)
(* got, and a gate that never got one enforces nothing.                    *)
(***************************************************************************)
EXTENDS Naturals, FiniteSets, Sequences

CONSTANTS
  Admins,       \* requests to the ban API
  Agents,       \* agents of the process, with a gate each
  Users,
  Targets,      \* bound: the agents and users somebody bans
  Runs,         \* threads that enter run boundaries, again and again ...
  AgentOf,      \* ... each for an agent
  UserOf,       \* ... and a user, or None
  MaxBans,      \* bound: bans created
  MaxFailures,  \* bound: fetches that fail, or get a malformed body
  None          \* no etag, no source, no target, no lock holder

BanIds == 1..MaxBans
SourceIds == 1..Cardinality(Runs)

\* Of the constants; assumed by the modules that give them values.
BansAssumption ==
  /\ IsFiniteSet(Runs)
  /\ AgentOf \in [Runs -> Agents] /\ UserOf \in [Runs -> Users \cup {None}]
  /\ MaxBans \in Nat /\ MaxFailures \in Nat
  /\ Agents \cap Users = {} /\ Targets \subseteq Agents \cup Users
  /\ None \notin Agents \cup Users \cup Runs /\ \A S \in SUBSET BanIds : S # None

VARIABLES
  bans,         \* rows, in the order of their creation: [target, active]
  admin,        \* the target an admin's request is about to ban
  registry,     \* _ban_sources of this API key: a source, or None
  source,       \* each PlatformBanSource: cached set, etag, lock
  gate,         \* the source of each agent's BanGate
  run,          \* each run boundary
  failures

vars == <<bans, admin, registry, source, gate, run, failures>>

PCs == {"idle", "creating", "ready", "asked", "storing", "fetched",
        "refused", "admitted"}

Active == {b \in DOMAIN bans : bans[b].active}
Revoked == DOMAIN bans \ Active

\* (Mutant) The feed's etag is its length.
EtagByCount(feed) == 1..Cardinality(feed)

\* A hash of the active rows, which never change: the set of their ids.
Etag(feed) == feed

\* The bans, past and present, of the agent and the user of a run.
Aims(r) == {b \in DOMAIN bans : bans[b].target \in {AgentOf[r], UserOf[r]}}

Boundary == [pc |-> "idle", src |-> None, sent |-> None,
             got |-> {},
             \* for the properties: bans that must stop the run, and that must not
             owed |-> {}, lifted |-> {}]

Init ==
  /\ bans = <<>> /\ admin = [m \in Admins |-> None]
  /\ registry = None /\ gate = [a \in Agents |-> None]
  /\ source = [s \in SourceIds |-> [used |-> FALSE, cached |-> {}, etag |-> None,
                                    lock |-> None, delivered |-> {}]]
  /\ run = [r \in Runs |-> Boundary]
  /\ failures = 0

sdk == <<registry, source, gate, run, failures>>

-----------------------------------------------------------------------------
(* The platform.                                                           *)

\* create_ban: no active ban for this target, says a first query ...
CheckBan(m, t) ==
  /\ admin[m] = None
  /\ \A b \in Active : bans[b].target # t
  /\ admin' = [admin EXCEPT ![m] = t]
  /\ UNCHANGED <<bans, sdk>>

\* ... and the row is inserted, whatever was inserted in between.
InsertBan(m) ==
  /\ admin[m] # None
  /\ Len(bans) < MaxBans
  /\ bans' = Append(bans, [target |-> admin[m], active |-> TRUE])
  /\ admin' = [admin EXCEPT ![m] = None]
  /\ UNCHANGED sdk

\* A lifted ban is owed to nobody any more.
RevokeBan(b) ==
  /\ b \in Active
  /\ bans' = [bans EXCEPT ![b].active = FALSE]
  /\ run' = [r \in Runs |-> [run[r] EXCEPT !.owed = @ \ {b}]]
  /\ source' = [s \in SourceIds |-> [source[s] EXCEPT !.delivered = @ \ {b}]]
  /\ UNCHANGED <<admin, registry, gate, failures>>

-----------------------------------------------------------------------------
(* The registry: get_ban_source, when a gate is built.                     *)

Enter(r) ==
  /\ run[r].pc = "idle"
  /\ LET held == gate[AgentOf[r]]
     IN  \/ /\ held # None
            /\ run' = [run EXCEPT ![r].pc = "ready", ![r].src = held]
            /\ UNCHANGED gate
         \/ /\ held = None /\ registry # None
            /\ run' = [run EXCEPT ![r].pc = "ready", ![r].src = registry]
            /\ gate' = [gate EXCEPT ![AgentOf[r]] = registry]
         \/ /\ held = None /\ registry = None
            /\ run' = [run EXCEPT ![r].pc = "creating"]
            /\ UNCHANGED gate
  /\ UNCHANGED <<bans, admin, registry, source, failures>>

\* The dict had no source when it was looked up: this thread makes one.
CreateSource(r) ==
  /\ run[r].pc = "creating"
  /\ \E s \in SourceIds :
       /\ ~source[s].used /\ \A i \in SourceIds : i < s => source[i].used
       /\ source' = [source EXCEPT ![s].used = TRUE]
       /\ registry' = s
       /\ gate' = [gate EXCEPT ![AgentOf[r]] = s]
       /\ run' = [run EXCEPT ![r].pc = "ready", ![r].src = s]
  /\ UNCHANGED <<bans, admin, failures>>

-----------------------------------------------------------------------------
(* PlatformBanSource.fetch, under the lock of the source.                  *)

Src(r) == source[run[r].src]

Ask(r) ==
  /\ run[r].pc = "ready"
  /\ Src(r).lock = None
  /\ source' = [source EXCEPT ![run[r].src].lock = r]
  /\ run' = [run EXCEPT ![r] = [@ EXCEPT !.pc = "asked", !.sent = Src(r).etag,
                                         !.owed = Active \cap Aims(r),
                                         !.lifted = Revoked \cap Aims(r)]]
  /\ UNCHANGED <<bans, admin, registry, gate, failures>>

\* fetch returns.  A failed one owes the run the bans its source was told of.
Returns(r, set, fails) ==
  run' = [run EXCEPT ![r] =
            [@ EXCEPT !.pc = "fetched", !.got = set \cap Aims(r), !.sent = None, !.src = None,
                      !.owed = IF fails THEN run[r].owed \cap Src(r).delivered
                               ELSE run[r].owed,
                      !.lifted = IF fails THEN {} ELSE run[r].lifted]]

Unlocked(r, src) == source' = [source EXCEPT ![run[r].src] =
                                 [src EXCEPT !.lock = None]]

\* 304: the cached set.
NotModified(r) ==
  /\ run[r].pc = "asked"
  /\ run[r].sent = Etag(Active)
  /\ Unlocked(r, Src(r))
  /\ Returns(r, Src(r).cached, FALSE)
  /\ UNCHANGED <<bans, admin, registry, gate, failures>>

\* 200: the set is cached first, its etag by Stores.
Answered(r) ==
  /\ run[r].pc = "asked"
  /\ run[r].sent # Etag(Active)
  /\ source' = [source EXCEPT ![run[r].src].cached = Active]
  /\ run' = [run EXCEPT ![r].pc = "storing", ![r].sent = Etag(Active)]
  /\ UNCHANGED <<bans, admin, registry, gate, failures>>

Stores(r) ==
  /\ run[r].pc = "storing"
  /\ Unlocked(r, [Src(r) EXCEPT !.etag = run[r].sent, !.delivered = @ \cup (Src(r).cached \cap Active)])
  /\ Returns(r, Src(r).cached, FALSE)
  /\ UNCHANGED <<bans, admin, registry, gate, failures>>

\* (Mutant) Without an answer nobody is banned.
FailsOpen(r) ==
  /\ run[r].pc = "asked"
  /\ failures < MaxFailures
  /\ failures' = failures + 1
  /\ Unlocked(r, Src(r))
  /\ Returns(r, {}, TRUE)
  /\ UNCHANGED <<bans, admin, registry, gate>>

\* An error, a timeout or a malformed body: the last good set.
Fails(r) ==
  /\ run[r].pc = "asked"
  /\ failures < MaxFailures
  /\ failures' = failures + 1
  /\ Unlocked(r, Src(r))
  /\ Returns(r, Src(r).cached, TRUE)
  /\ UNCHANGED <<bans, admin, registry, gate>>

-----------------------------------------------------------------------------
(* The gate.                                                               *)

Decided(r, refused) ==
  run' = [run EXCEPT ![r] =
            IF refused THEN [@ EXCEPT !.pc = "refused", !.owed = {}]
                       ELSE [@ EXCEPT !.pc = "admitted", !.got = {}, !.lifted = {}]]

\* (Mutant) A run with a user is checked for the user's ban only.
EnforceUserOnly(r) ==
  /\ run[r].pc = "fetched"
  /\ Decided(r, \E b \in run[r].got : UserOf[r] \in {None, bans[b].target})
  /\ UNCHANGED <<bans, admin, registry, source, gate, failures>>

\* BanGate.enforce: the agent's ban or the user's, found under their names.
Enforce(r) ==
  /\ run[r].pc = "fetched"
  /\ Decided(r, run[r].got # {})
  /\ UNCHANGED <<bans, admin, registry, source, gate, failures>>

\* The run, or its refusal, is over.
Leave(r) ==
  /\ run[r].pc \in {"refused", "admitted"}
  /\ run' = [run EXCEPT ![r] = Boundary]
  /\ UNCHANGED <<bans, admin, registry, source, gate, failures>>

\* What a boundary does by itself when the platform answers.
Proceeds(r) ==
  \/ CreateSource(r) \/ Ask(r) \/ NotModified(r) \/ Answered(r) \/ Stores(r)
  \/ Enforce(r)

Next ==
  \/ \E m \in Admins : InsertBan(m) \/ \E t \in Targets : CheckBan(m, t)
  \/ \E b \in BanIds : RevokeBan(b)
  \/ \E r \in Runs : Enter(r) \/ Proceeds(r) \/ Fails(r) \/ Leave(r)

Spec == Init /\ [][Next]_vars

\* Requests end (the client has a timeout), the lock is handed over, and a run
\* that has been decided ends some time.
FairSpec == Spec /\ \A r \in Runs : SF_vars(Proceeds(r)) /\ WF_vars(Leave(r))

-----------------------------------------------------------------------------
(* Properties.                                                             *)

\* Every variable keeps its shape, and no ban is stored without a target: a feed
\* entry with a blank one is dropped by the SDK, a ban that binds nobody.
TypeOK ==
  /\ bans \in Seq([target : Targets, active : BOOLEAN]) /\ Len(bans) <= MaxBans
  /\ admin \in [Admins -> Targets \cup {None}]
  /\ registry \in SourceIds \cup {None}
  /\ gate \in [Agents -> SourceIds \cup {None}]
  /\ source \in [SourceIds -> [used : BOOLEAN, cached : SUBSET BanIds,
                               etag : (SUBSET BanIds) \cup {None},
                               lock : Runs \cup {None}, delivered : SUBSET BanIds]]
  /\ run \in [Runs -> [pc : PCs, src : SourceIds \cup {None},
                       sent : (SUBSET BanIds) \cup {None}, got : SUBSET BanIds,
                       owed : SUBSET BanIds, lifted : SUBSET BanIds]]
  /\ failures \in 0..MaxFailures

\* A run of a banned agent or user is admitted only if its fetch failed and its
\* source had never been told of the ban: a ban that was active when the fetch
\* began binds a run whose fetch succeeds, and one that was ever delivered to
\* the source binds every later run until it is lifted, whatever fails.
KillSwitch == \A r \in Runs : run[r].pc = "admitted" => run[r].owed = {}

\* A ban lifted before the fetch began refuses nobody whose fetch succeeds.
LiftedBansLetPass ==
  \A r \in Runs : run[r].pc = "refused" => run[r].got \ run[r].lifted # {}

\* Once an agent or a user stays banned, no run it targets is admitted any more.
BansTakeHold ==
  \A r \in Runs : <>[](Active \cap Aims(r) # {}) => <>[](run[r].pc # "admitted")

=============================================================================
