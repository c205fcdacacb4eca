---------------------------- MODULE PolicyStore ----------------------------
(***************************************************************************)
(* A project's policy on the platform: the stores it is written in         *)
(* (features/policy_modules) and the bundles its agents enforce            *)
(* (features/agents), which are compiled from them.                        *)
(*                                                                         *)
(* The policy comes from the file store once it has an entry file, else    *)
(* from the modules once a role is bound, else from each agent's own text. *)
(* A write commits its row first and rebuilds the bundles after, under a   *)
(* lock of the process; the build may fail, and the process may die        *)
(* between the two commits.                                                *)
(***************************************************************************)
EXTENDS FiniteSets

CONSTANTS
  Agents,        \* names of agents
  Caps,          \* names of capability modules
  Requests,      \* requests in progress at once
  None

\* Texts of a capability module: two that compose, and one that does not (a
\* deny in a capability).
ModuleTexts == {"read", "write", "broken"}

\* Texts of the entry file: one that stands alone, one that imports the
\* fragment.
EntryTexts == {"alone", "importing"}

\* Texts of an agent's own policy: what registration writes in a modular
\* project, and anything else.
OwnTexts == {"denyAll", "own"}

VARIABLES
  module,        \* policy_module rows: the text of each capability, or None
  roles,         \* role_binding rows: the capabilities bound, None if no row
  entry,         \* the policy_file row "policy.yaml": its text, or None
  fragment,      \* whether the one other policy_file row exists
  own,           \* agent rows: policy_yaml, None if there is no such agent
  bundle,        \* agent rows: what the bundle was compiled from, or None
  req,           \* the requests
  up,            \* the process serves
  behind,        \* a build failed or was lost since the last one that succeeded
  torn           \* ... in the middle of a change from classic to modular

store == <<module, roles, entry, fragment>>
vars == <<module, roles, entry, fragment, own, bundle, req, up, behind, torn>>

FromFiles(e, f) == [from |-> "files", entry |-> e, fragment |-> f]
FromModules(r, m) == [from |-> "modules", roles |-> r, texts |-> [c \in r |-> m[c]]]
FromOwn(text) == [from |-> "own", text |-> text]

Sources == {FromFiles(e, f) : e \in EntryTexts, f \in BOOLEAN}
      \cup UNION {{[from |-> "modules", roles |-> r, texts |-> t] :
                     t \in [r -> ModuleTexts]} : r \in SUBSET Caps}
      \cup {FromOwn(t) : t \in OwnTexts}

\* What is written, bound or compiled is not None.  Assumed by the modules that
\* give the constants values.
StoreAssumption ==
  /\ None \notin ModuleTexts \cup EntryTexts \cup OwnTexts
  /\ \A r \in SUBSET Caps : r # None
  /\ \A s \in Sources : s # None

\* A request that holds the lock is named for what it does next; flip: it makes
\* a classic project modular; undo: the store it restores if it cannot; plan:
\* what it compiles; agent, text: the agent it writes.
Idle == [pc |-> "idle", flip |-> FALSE, undo |-> <<>>, plan |-> <<>>,
         agent |-> None, text |-> None]

Init ==
  /\ module = [c \in Caps |-> None]
  /\ roles = None
  /\ entry = None /\ fragment = FALSE
  /\ own = [a \in Agents |-> None]
  /\ bundle = [a \in Agents |-> None]
  /\ req = [p \in Requests |-> Idle]
  /\ up = TRUE /\ behind = FALSE /\ torn = FALSE

-----------------------------------------------------------------------------
Registered == {a \in Agents : own[a] # None}

\* is_modular
Modular(r, e) == e # None \/ r # None

\* _resolve_all_agents: every capability a role imports exists and composes.
ModulesResolve(r, m) == \A c \in r : m[c] \in {"read", "write"}

\* _resolve_all_agents_files: every file the entry imports exists.
FilesResolve(e, f) == e = "importing" => f

\* What resolve_auto and check_auto go by: the entry file decides the store.
Resolves(m, r, e, f) ==
  IF e # None THEN FilesResolve(e, f) ELSE r # None => ModulesResolve(r, m)

\* bundle_for_agent: what an agent is compiled from now.
Source(a) == IF entry # None THEN FromFiles(entry, fragment)
             ELSE IF roles # None THEN FromModules(roles, module)
             ELSE FromOwn(own[a])

To(p, r) == req' = [req EXCEPT ![p] = r]

\* (Mutant) Nobody waits for anybody.
LockIgnored == up

\* project_lock: one holder in the process.
LockFree == up /\ \A p \in Requests : req[p].pc = "idle"

Asks(p) == LockFree /\ req[p].pc = "idle"

Rebuild(p, flip, undo) ==
  To(p, [Idle EXCEPT !.pc = "recompile", !.flip = flip, !.undo = undo])

-----------------------------------------------------------------------------
(* Writes of the store: validated against what is stored, committed, and   *)
(* followed by a rebuild when they change what agents enforce.             *)

\* api_put_policy_module: in a modular project the modules must still resolve
\* with the draft; a text saved again rebuilds nothing.
PutModule(p, c, text) ==
  LET draft == [module EXCEPT ![c] = text]
  IN  /\ Asks(p)
      /\ Modular(roles, entry) /\ roles # None => ModulesResolve(roles, draft)
      /\ module' = draft
      /\ IF Modular(roles, entry) /\ text # module[c]
         THEN Rebuild(p, FALSE, <<>>) ELSE UNCHANGED req
      /\ UNCHANGED <<roles, entry, fragment, own, bundle, up, behind, torn>>

\* (Mutant) A capability a role imports is deleted.
DeleteModuleInUse(p, c) ==
  /\ Asks(p)
  /\ module[c] # None
  /\ module' = [module EXCEPT ![c] = None]
  /\ IF Modular(roles, entry) THEN Rebuild(p, FALSE, <<>>) ELSE UNCHANGED req
  /\ UNCHANGED <<roles, entry, fragment, own, bundle, up, behind, torn>>

\* api_delete_policy_module; roles_importing.
DeleteModule(p, c) ==
  /\ Asks(p)
  /\ module[c] # None
  /\ roles # None => c \notin roles
  /\ module' = [module EXCEPT ![c] = None]
  /\ IF Modular(roles, entry) THEN Rebuild(p, FALSE, <<>>) ELSE UNCHANGED req
  /\ UNCHANGED <<roles, entry, fragment, own, bundle, up, behind, torn>>

\* api_set_policy_roles: the first binding is a flip, which is undone if no
\* bundle can be built.
SetRoles(p, new) ==
  /\ Asks(p)
  /\ new # roles
  /\ new # None => ModulesResolve(new, module)
  /\ roles' = new
  /\ Rebuild(p, new # None /\ roles = None, store)
  /\ UNCHANGED <<module, entry, fragment, own, bundle, up, behind, torn>>

\* api_put_policy_file, the entry: the first one of a classic project is a flip.
PutEntry(p, text) ==
  /\ Asks(p)
  /\ FilesResolve(text, fragment)
  /\ text # entry
  /\ entry' = text
  /\ Rebuild(p, ~Modular(roles, entry), store)
  /\ UNCHANGED <<module, roles, fragment, own, bundle, up, behind, torn>>

\* api_put_policy_file, another file.
PutFragment(p) ==
  /\ Asks(p)
  /\ ~fragment
  /\ fragment' = TRUE
  /\ Rebuild(p, FALSE, <<>>)
  /\ UNCHANGED <<module, roles, entry, own, bundle, up, behind, torn>>

\* api_delete_policy_file: a file the entry imports stays; the entry may go.
DeleteFragment(p) ==
  /\ Asks(p)
  /\ fragment
  /\ entry # None => FilesResolve(entry, FALSE)
  /\ fragment' = FALSE
  /\ Rebuild(p, FALSE, <<>>)
  /\ UNCHANGED <<module, roles, entry, own, bundle, up, behind, torn>>

DeleteEntry(p) ==
  /\ Asks(p)
  /\ entry # None
  /\ entry' = None
  /\ Rebuild(p, FALSE, <<>>)
  /\ UNCHANGED <<module, roles, fragment, own, bundle, up, behind, torn>>

-----------------------------------------------------------------------------
(* recompile_project.                                                      *)

\* One read of the store and the agents resolves them all.
ResolveAgents(p) ==
  /\ req[p].pc = "recompile"
  /\ To(p, [req[p] EXCEPT !.pc = "build", !.plan = [a \in Registered |-> Source(a)]])
  /\ UNCHANGED <<module, roles, entry, fragment, own, bundle, up, behind, torn>>

ModularPlan(plan) == \E a \in DOMAIN plan : plan[a].from # "own"

\* All agents in one commit.  In a classic project an agent whose policy does
\* not compile loses its bundle; in a modular one they are all built or
\* BuildFails.
Built(p) ==
  LET plan == req[p].plan
  IN  /\ req[p].pc = "build"
      /\ \E failed \in SUBSET DOMAIN plan :
           /\ ModularPlan(plan) => failed = {}
           /\ bundle' = [a \in Agents |->
                IF a \in failed THEN None
                ELSE IF a \in DOMAIN plan THEN plan[a] ELSE bundle[a]]
      /\ behind' = FALSE
      /\ torn' = IF ModularPlan(plan) THEN FALSE ELSE torn
      /\ To(p, Idle)
      /\ UNCHANGED <<module, roles, entry, fragment, own, up>>

\* (Mutant) A flip is a change like any other.
BuildFailsUnheeded(p) ==
  /\ req[p].pc = "build"
  /\ DOMAIN req[p].plan # {}
  /\ behind' = TRUE
  /\ To(p, Idle)
  /\ UNCHANGED <<module, roles, entry, fragment, own, bundle, up, torn>>

\* opa, the signature or the commit fails: the bundles stay, and a flip is
\* taken back.  With no agents there is nothing to fail.
BuildFails(p) ==
  /\ req[p].pc = "build"
  /\ DOMAIN req[p].plan # {}
  /\ IF req[p].flip
     THEN To(p, [req[p] EXCEPT !.pc = "undo"]) /\ UNCHANGED behind
     ELSE To(p, Idle) /\ behind' = TRUE
  /\ UNCHANGED <<module, roles, entry, fragment, own, bundle, up, torn>>

UndoFlip(p) ==
  /\ req[p].pc = "undo"
  /\ module' = req[p].undo[1] /\ roles' = req[p].undo[2]
  /\ entry' = req[p].undo[3] /\ fragment' = req[p].undo[4]
  /\ To(p, Idle)
  /\ UNCHANGED <<own, bundle, up, behind, torn>>

-----------------------------------------------------------------------------
(* Agents.                                                                 *)

\* api_update_agent: a classic agent's text and bundle are committed together,
\* a modular agent's bundle is left alone.
PutAgent(p, a, text) ==
  /\ Asks(p)
  /\ a \in Registered
  /\ IF Modular(roles, entry)
     THEN own' = [own EXCEPT ![a] = text] /\ UNCHANGED req
     ELSE own' = own /\ To(p, [Idle EXCEPT !.pc = "save", !.agent = a, !.text = text])
  /\ UNCHANGED <<module, roles, entry, fragment, bundle, up, behind, torn>>

\* register_manifest of a new agent: the project lock is held, the row is not
\* seen before the commit; a modular project's agent falls back to denying all.
Register(p, a) ==
  /\ Asks(p)
  /\ a \notin Registered
  /\ To(p, [Idle EXCEPT !.pc = "save", !.agent = a, !.text =
              IF Modular(roles, entry) THEN "denyAll" ELSE "own"])
  /\ UNCHANGED <<module, roles, entry, fragment, own, bundle, up, behind, torn>>

\* The commit of either, with a bundle or, if none could be built, without.
Save(p) ==
  LET a == req[p].agent
  IN  /\ req[p].pc = "save"
      /\ own' = [own EXCEPT ![a] = req[p].text]
      /\ \E built \in BOOLEAN :
           bundle' = [bundle EXCEPT ![a] =
             IF ~built THEN None
             ELSE IF Modular(roles, entry) THEN Source(a) ELSE FromOwn(req[p].text)]
      /\ To(p, Idle)
      /\ UNCHANGED <<module, roles, entry, fragment, up, behind, torn>>

-----------------------------------------------------------------------------
\* The process dies: nobody goes on, nothing uncommitted stays.
Crash ==
  /\ up
  /\ up' = FALSE
  /\ req' = [p \in Requests |-> Idle]
  /\ behind' = (behind \/ \E p \in Requests : req[p].pc \in {"recompile", "build", "undo"})
  /\ torn' = (torn \/ \E p \in Requests : req[p].flip)
  /\ UNCHANGED <<module, roles, entry, fragment, own, bundle>>

\* lifespan: backfill_bundles builds, where it can, what is missing, and only
\* that; then the process serves.
Boot ==
  /\ ~up
  /\ up' = TRUE
  /\ \E built \in SUBSET {a \in Registered : bundle[a] = None} :
       bundle' = [a \in Agents |-> IF a \in built THEN Source(a) ELSE bundle[a]]
  /\ UNCHANGED <<module, roles, entry, fragment, own, req, behind, torn>>

Next ==
  \/ \E p \in Requests :
       \/ \E c \in Caps : DeleteModule(p, c) \/ \E t \in ModuleTexts : PutModule(p, c, t)
       \/ \E new \in (SUBSET Caps) \cup {None} : SetRoles(p, new)
       \/ \E t \in EntryTexts : PutEntry(p, t)
       \/ PutFragment(p) \/ DeleteFragment(p) \/ DeleteEntry(p)
       \/ ResolveAgents(p) \/ Built(p) \/ BuildFails(p) \/ UndoFlip(p)
       \/ \E a \in Agents : Register(p, a) \/ \E t \in OwnTexts : PutAgent(p, a, t)
       \/ Save(p)
  \/ Crash \/ Boot

Spec == Init /\ [][Next]_vars

-----------------------------------------------------------------------------
(* Properties.                                                             *)

TypeOK ==
  /\ module \in [Caps -> ModuleTexts \cup {None}]
  /\ roles \in (SUBSET Caps) \cup {None}
  /\ entry \in EntryTexts \cup {None} /\ fragment \in BOOLEAN
  /\ own \in [Agents -> OwnTexts \cup {None}]
  /\ bundle \in [Agents -> Sources \cup {None}]
  /\ \A p \in Requests :
       /\ req[p].pc \in {"idle", "recompile", "build", "undo", "save"}
       /\ \A a \in DOMAIN req[p].plan : req[p].plan[a] \in Sources
  /\ {up, behind, torn} \subseteq BOOLEAN

\* Every policy that is ever stored resolves: no order of accepted writes of
\* modules, roles and files leaves a project with one that does not.
StoredPolicyResolves == Resolves(module, roles, entry, fragment)

\* Unless a build failed or was lost, the agents enforce what is stored, however
\* writes, registrations and builds follow each other.
BundlesCurrent ==
  LockFree /\ ~behind => \A a \in Registered : bundle[a] \in {None, Source(a)}

\* An agent of a modular project serves no bundle of its own text: a change that
\* cannot be built is taken back, unless the process dies meanwhile.
ModularBundles ==
  LockFree /\ Modular(roles, entry) /\ ~torn =>
    \A a \in Registered : bundle[a] # None => bundle[a].from # "own"

=============================================================================
