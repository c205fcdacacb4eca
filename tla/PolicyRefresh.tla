--------------------------- MODULE PolicyRefresh ---------------------------
(***************************************************************************)
(* How a running agent follows the policy its platform serves:             *)
(* PlatformPolicySource.fetch (hexgate/security/source.py) with the        *)
(* conditional GET of the agents router, and PolicyBinding.refresh         *)
(* (hexgate/security/binding.py), which installs what it fetched in the    *)
(* enforcer every tool closes over.                                        *)
(*                                                                         *)
(* One binding is shared by concurrent runs, and each run's refresh is on  *)
(* a worker thread of its own: fetches are serialised by the source's      *)
(* lock, the installation of what they return is not.                      *)
(***************************************************************************)
EXTENDS Naturals

CONSTANTS
  Runs,         \* concurrent run boundaries, each refreshing again and again
  Wasms,        \* compiled policies; the guard stance is beside the wasm
  MaxEdits,     \* bound: saves on the platform
  MaxFaults,    \* bound: failed or forged responses
  NoRun, NoTag, \* nobody holds the lock; no etag, or no yaml hash
  Unparseable,  \* a policy_yaml the SDK rejects
  Forged        \* a bundle whose signature does not verify

\* What a save produces: the wasm and the guards the manifest switches on.
Contents == [wasm : Wasms, guards : BOOLEAN]

ASSUME RefreshAssumption ==
  /\ MaxEdits \in Nat /\ MaxFaults \in Nat
  /\ NoRun \notin Runs
  /\ {NoTag, Unparseable, Forged} \cap (Contents \cup Wasms) = {}
  /\ NoTag # Unparseable

\* A response body: a signed bundle, or policy_yaml when opa did not compile.
Served == [kind : {"bundle"}, content : Contents]
            \cup [kind : {"yaml"}, content : Contents \cup {Unparseable}]

\* An engine is what was served, with the save it comes from.
Engines == [kind : {"bundle", "yaml"}, content : Contents \cup {Unparseable, Forged},
            ver : Nat]

Tags == Contents \cup Wasms \cup {NoTag}
YamlHashes == Contents \cup {Unparseable, NoTag}

VARIABLES
  platform,     \* the agent row: what is served, and how many saves made it
  source,       \* PlatformPolicySource: cached engine, etag, yaml hash, lock, and
                \* HEXGATE_BUNDLE_REQUIRE_SIGNATURE in its process (strict)
  enforcer,     \* PolicyEnforcer.policy
  run,          \* each run's refresh
  faults

vars == <<platform, source, enforcer, run, faults>>

PCs == {"idle", "asked", "storing", "fetched"}

Response == [kind |-> platform.kind, content |-> platform.content, ver |-> platform.ver]

-----------------------------------------------------------------------------
(* The platform.                                                           *)

\* (Mutant) The conditional GET keyed on the wasm alone: R-GUARD-007's bug.
EtagOfWasm(p) == IF p.kind = "bundle" THEN p.content.wasm ELSE NoTag

\* _bundle_etag: a hash of the signed manifest, which carries the wasm hash
\* and the guard stance; none for a row without a compiled bundle.
Etag(p) == IF p.kind = "bundle" THEN p.content ELSE NoTag

\* A policy edit, or opa coming or going between two saves.
Save ==
  /\ platform.ver < MaxEdits
  /\ \E s \in Served :
       platform' = [kind |-> s.kind, content |-> s.content, ver |-> platform.ver + 1]
  /\ UNCHANGED <<source, enforcer, run, faults>>

-----------------------------------------------------------------------------
(* The source.  Between Ask and the return of the fetch it holds the lock. *)

\* platform_policy_from_payload: the first engine is loaded and verified, and
\* the source is seeded with its etag, or with its yaml hash.
Init ==
  \E s \in Served, strict \in BOOLEAN :
    /\ s.content # Unparseable
    /\ strict => s.kind = "bundle"
    /\ platform = [kind |-> s.kind, content |-> s.content, ver |-> 0]
    /\ enforcer = platform
    /\ source = [engine |-> enforcer,
                 etag |-> Etag(platform),
                 yaml |-> IF s.kind = "yaml" THEN s.content ELSE NoTag,
                 lock |-> NoRun, strict |-> strict]
    /\ run = [r \in Runs |-> [pc |-> "idle", sent |-> NoTag, tag |-> NoTag,
                              asOf |-> platform, result |-> enforcer]]
    /\ faults = 0

\* The top of a run: the refresh takes the lock and sends its etag.
Ask(r) ==
  /\ run[r].pc = "idle"
  /\ source.lock = NoRun
  /\ source' = [source EXCEPT !.lock = r]
  /\ run' = [run EXCEPT ![r].pc = "asked", ![r].sent = source.etag]
  /\ UNCHANGED <<platform, enforcer, faults>>

\* fetch() returns an engine; the lock is released with it.
Returns(r, src, engine) ==
  /\ source' = [src EXCEPT !.lock = NoRun]
  /\ run' = [run EXCEPT ![r].pc = "fetched", ![r].asOf = Response, ![r].result = engine]

\* fetch() raises; refresh logs and keeps the engine it has.
Raises(r) ==
  /\ run[r].pc = "asked"
  /\ source' = [source EXCEPT !.lock = NoRun]
  /\ run' = [run EXCEPT ![r].pc = "idle"]
  /\ UNCHANGED <<platform, enforcer>>

\* A timeout, a 5xx, a dropped connection.
Fails(r) ==
  /\ faults < MaxFaults
  /\ faults' = faults + 1
  /\ Raises(r)

\* A response to cache: the engine is written first, its tags by Stores.
Writes(r, engine, tag) ==
  /\ source' = [source EXCEPT !.engine = engine]
  /\ run' = [run EXCEPT ![r].pc = "storing", ![r].tag = tag, ![r].asOf = Response]

\* (Mutant) A 304 is "nothing to do": fetch answers with what is installed.
AnsweredNotModifiedNone(r) ==
  /\ run[r].pc = "asked"
  /\ run[r].sent # NoTag /\ run[r].sent = Etag(platform)
  /\ Returns(r, source, enforcer)
  /\ UNCHANGED <<platform, enforcer, faults>>

\* 304.
AnsweredNotModified(r) ==
  /\ run[r].pc = "asked"
  /\ run[r].sent # NoTag /\ run[r].sent = Etag(platform)
  /\ Returns(r, source, source.engine)
  /\ UNCHANGED <<platform, enforcer, faults>>

\* 200 with a bundle whose signature and integrity verify.
AnsweredBundle(r) ==
  /\ run[r].pc = "asked"
  /\ platform.kind = "bundle" /\ run[r].sent # Etag(platform)
  /\ Writes(r, Response, Etag(platform))
  /\ UNCHANGED <<platform, enforcer, faults>>

\* (Mutant) The bundle is installed before it is verified.
AnsweredForgedAccepted(r) ==
  /\ run[r].pc = "asked"
  /\ faults < MaxFaults
  /\ faults' = faults + 1
  /\ Writes(r, [Response EXCEPT !.content = Forged, !.kind = "bundle"], NoTag)
  /\ UNCHANGED <<platform, enforcer>>

\* 200 with a bundle that does not verify: RuntimeError, nothing is cached.
AnsweredForged(r) ==
  /\ faults < MaxFaults
  /\ faults' = faults + 1
  /\ Raises(r)

\* (Mutant) Strict mode is only a load-time check.
YamlAccepted == faults <= MaxFaults

\* The no-bundle branch is refused in strict mode.
YamlAllowed == ~source.strict

\* No bundle, and the text that made the cached engine: keep its identity.
AnsweredSameYaml(r) ==
  /\ run[r].pc = "asked"
  /\ platform.kind = "yaml" /\ YamlAllowed
  /\ platform.content = source.yaml
  /\ Returns(r, [source EXCEPT !.etag = NoTag], source.engine)
  /\ UNCHANGED <<platform, enforcer, faults>>

\* No bundle, and a new text that parses and validates.
AnsweredNewYaml(r) ==
  /\ run[r].pc = "asked"
  /\ platform.kind = "yaml" /\ YamlAllowed
  /\ platform.content \notin {source.yaml, Unparseable}
  /\ Writes(r, Response, NoTag)
  /\ UNCHANGED <<platform, enforcer, faults>>

\* No bundle, and strict mode or a text the SDK rejects.
AnsweredRefused(r) ==
  /\ platform.kind = "yaml"
  /\ ~YamlAllowed \/ platform.content = Unparseable
  /\ Raises(r)
  /\ UNCHANGED faults

\* (Mutant) The yaml branch keeps the etag of the bundle before it.
StoresKeepingEtag(r) ==
  /\ run[r].pc = "storing"
  /\ source' = [source EXCEPT !.etag = IF run[r].tag = NoTag THEN @ ELSE run[r].tag,
                              !.lock = NoRun]
  /\ run' = [run EXCEPT ![r].pc = "fetched", ![r].result = source.engine]
  /\ UNCHANGED <<platform, enforcer, faults>>

\* The tags of the engine just cached, and the return.
Stores(r) ==
  /\ run[r].pc = "storing"
  /\ source' = [source EXCEPT !.etag = run[r].tag, !.lock = NoRun,
                              !.yaml = IF run[r].asOf.kind = "yaml"
                                       THEN run[r].asOf.content ELSE NoTag]
  /\ run' = [run EXCEPT ![r].pc = "fetched", ![r].result = source.engine]
  /\ UNCHANGED <<platform, enforcer, faults>>

-----------------------------------------------------------------------------
\* PolicyBinding.refresh, outside the lock: install unless it is the very
\* object in force.
Installs(r) ==
  /\ run[r].pc = "fetched"
  /\ enforcer' = run[r].result
  /\ run' = [run EXCEPT ![r].pc = "idle"]
  /\ UNCHANGED <<platform, source, faults>>

\* What the refresh does once the platform has answered, or given an error.
Progress(r) ==
  \/ Ask(r) \/ AnsweredNotModified(r) \/ AnsweredBundle(r) \/ AnsweredSameYaml(r)
  \/ AnsweredNewYaml(r) \/ AnsweredRefused(r) \/ Stores(r) \/ Installs(r)

Next == Save \/ \E r \in Runs : Progress(r) \/ Fails(r) \/ AnsweredForged(r)

Spec == Init /\ [][Next]_vars

\* Every request ends (the client bounds it with refresh_timeout), and runs
\* keep coming: some run boundary asks again whenever the lock is free.
FairSpec == Spec /\ \A r \in Runs : WF_vars(Progress(r))

-----------------------------------------------------------------------------
(* Properties.                                                             *)

TypeOK ==
  /\ platform \in Engines
  /\ source \in [engine : Engines, etag : Tags, yaml : YamlHashes,
                 lock : Runs \cup {NoRun}, strict : BOOLEAN]
  /\ enforcer \in Engines
  /\ run \in [Runs -> [pc : PCs, sent : Tags, tag : Tags, asOf : Engines,
                       result : Engines]]
  /\ faults \in 0..MaxFaults

\* Only a policy that was really served and verified is ever enforced; in
\* strict mode only a signed bundle, even if the platform loses opa between
\* two runs.
OnlyVerifiedEnforced ==
  /\ enforcer.content \in Contents
  /\ source.strict => enforcer.kind = "bundle"

\* The cache pairs an engine with its own tags whenever nobody is refreshing:
\* never the etag of one response with the bundle of another.
TagsPairEngine ==
  source.lock = NoRun =>
    /\ source.etag # NoTag =>
         source.engine.kind = "bundle" /\ source.engine.content = source.etag
    /\ source.yaml # NoTag =>
         source.engine.kind = "yaml" /\ source.engine.content = source.yaml

\* A fetch that succeeds returns what the platform served when it answered:
\* no 304 and no cache hit hides an edit, a change of the guard stance, or a
\* move between the bundle and the yaml shape.
FetchHidesNoEdit ==
  \A r \in Runs : run[r].pc = "fetched" =>
    /\ run[r].result.kind = run[r].asOf.kind
    /\ run[r].result.content = run[r].asOf.content

\* Whatever is served at the end is what is enforced at the end, if a refresh
\* can accept it; an engine that a slow refresh installed late is replaced.
Converges ==
  <>[](\/ platform.kind = "yaml" /\ (source.strict \/ platform.content = Unparseable)
       \/ enforcer.kind = platform.kind /\ enforcer.content = platform.content)

\* policy-binding-spec.md: "concurrent refreshes serialize (lock)"; the policy
\* in force is never replaced by the one of an earlier save.
EnforcerNeverRegresses == [][enforcer'.ver >= enforcer.ver]_vars
=============================================================================
