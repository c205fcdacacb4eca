---------------------------- MODULE PolicyLinker ----------------------------
(* The linker: a project's policy modules folded into one policy per role,    *)
(* for one agent at a time.  Boundaries are fences over everybody, a role's   *)
(* capabilities are what it is granted, and a fence wins over a grant.        *)
(* A constraint is the set of cases it holds of, a case being the value of    *)
(* the project's constant and a call: a list of constraints is a conjunction, *)
(* and the expressions the fold assembles are Boolean combinations of them.   *)
EXTENDS Naturals

CONSTANTS
  Values,            \* of consts.<name>, the one constant of the project
  Calls,             \* the arguments a constraint can tell apart
  Tools, Reserved,   \* keys of rules; those of a gate (admission, reach or skills)
  BoundaryNames, CapabilityNames,
  BoundaryForms, CapabilityForms,   \* what their authors write
  Roles, DefaultRole,
  Agents, AnyAgent,  \* AnyAgent is "*"
  None

Cases == Values \X Calls

Grants == {"allow", "approval_required"}

Rules == [mode : Grants \cup {"deny"}, constraints : SUBSET SUBSET Cases]

\* `foreign`: a field the fold does not compose (file_scope, inherits, ...).
Modules == [default : Grants \cup {"deny"}, tools : [Tools -> Rules \cup {None}],
            const : Values \cup {None}, foreign : BOOLEAN]

Cells == (SUBSET CapabilityNames) \cup {None}

Bindings == [Roles -> [Agents \cup {AnyAgent} -> Cells] \cup {None}] \cup {None}

ASSUME LinkerAssumption ==
  /\ Reserved \subseteq Tools
  /\ BoundaryForms \subseteq Modules /\ CapabilityForms \subseteq Modules
  /\ DefaultRole \notin Roles /\ AnyAgent \notin Agents
  /\ None \notin Rules

VARIABLES
  boundaries,   \* [BoundaryNames -> a module, or None: no such file]
  library,      \* [CapabilityNames -> a module, or None]
  roles         \* roles.yaml as a matrix, or None: no such file

vars == <<boundaries, library, roles>>

Init ==
  /\ boundaries = [n \in BoundaryNames |-> None]
  /\ library = [n \in CapabilityNames |-> None]
  /\ roles = None

-----------------------------------------------------------------------------
(* The fold of one role's layers, `bs` its boundaries, `cs` its capabilities. *)

And(constraints) == {x \in Cases : \A c \in constraints : x \in c}

Lists(m, t) == m.tools[t] # None

Granted(m, t) == Lists(m, t) /\ m.tools[t].mode \in Grants

Denied(m, t) == Lists(m, t) /\ m.tools[t].mode = "deny"

HardDenied(bs, t) == \E b \in bs : Denied(b, t) /\ b.tools[t].constraints = {}

\* A ceiling permits only what it explicitly allows.
Ineligible(bs, t) == \E b \in bs : b.default = "deny" /\ ~Granted(b, t)

GrantsOf(cs, t) == {c \in cs : Granted(c, t)}

AnyApproval(bs, cs, t) ==
  \E m \in bs \cup cs : Lists(m, t) /\ m.tools[t].mode = "approval_required"

\* One unconditional grant makes the union of the grants unconditional.
Union(gs, t) ==
  IF \E g \in gs : g.tools[t].constraints = {} THEN {}
  ELSE {UNION {And(g.tools[t].constraints) : g \in gs}}

Ceilings(bs, t) == UNION {b.tools[t].constraints : b \in {b \in bs : Granted(b, t)}}

\* (Mutant) A conditional deny is taken for none.
SubtractedFromNone(bs, t) == {}

\* A conditional deny takes its region out of the grant.
Subtracted(bs, t) ==
  {Cases \ And(b.tools[t].constraints) : b \in {b \in bs : Denied(b, t)}}

Deny == [mode |-> "deny", constraints |-> {}]

\* (Mutant) A key nobody may use is left out like a tool's.
OmittedAlike(t) == None

\* Without its key in the policy a gate would not engage at all.
Omitted(t) == IF t \in Reserved THEN Deny ELSE None

FoldTool(bs, cs, t) ==
  CASE \A m \in bs \cup cs : ~Lists(m, t) -> None
    [] HardDenied(bs, t) -> Deny
    [] OTHER ->
         IF Ineligible(bs, t) \/ GrantsOf(cs, t) = {} THEN Omitted(t)
         ELSE [mode |-> IF AnyApproval(bs, cs, t) THEN "approval_required" ELSE "allow",
               constraints |->
                 Ceilings(bs, t) \cup Union(GrantsOf(cs, t), t) \cup Subtracted(bs, t)]

Consts(ms) == {m.const : m \in ms} \ {None}

\* The effective default is always deny.
Link(bs, cs) ==
  [tools |-> [t \in Tools |-> FoldTool(bs, cs, t)], consts |-> Consts(bs \cup cs)]

\* consts.<name> is read: two of its values tell some call apart.
Reads(c) == \E v, w \in Values, a \in Calls : <<v, a>> \in c /\ <<w, a>> \notin c

\* No field is dropped, no constant defined twice or missing, or there is a LinkError.
Linkable(bs, cs) ==
  /\ \A m \in bs \cup cs : ~m.foreign
  /\ \A v, w \in Consts(bs \cup cs) : v = w
  /\ \/ Consts(bs \cup cs) # {}
     \/ \A t \in Tools : FoldTool(bs, cs, t) # None =>
          \A c \in FoldTool(bs, cs, t).constraints : ~Reads(c)

-----------------------------------------------------------------------------
(* A project's roles, resolved for one agent.                                *)

ModulesOf(files) == {files[n] : n \in {n \in DOMAIN files : files[n] # None}}

AllRoles == Roles \cup {DefaultRole}

\* An agent's own cell replaces "*"; with neither the role imports nothing.
Cell(cells, agent) ==
  CASE cells[agent] # None -> cells[agent]
    [] cells[AnyAgent] # None -> cells[AnyAgent]
    [] OTHER -> {}

\* Without roles.yaml there is one role, and it imports everything.
Imported(role, agent) ==
  CASE roles = None ->
         IF role = DefaultRole THEN {n \in CapabilityNames : library[n] # None} ELSE {}
    [] roles # None /\ role \in Roles /\ roles[role] # None -> Cell(roles[role], agent)
    [] OTHER -> {}

Defined(role) == role = DefaultRole \/ (roles # None /\ roles[role] # None)

Fences == ModulesOf(boundaries)

Pack(role, agent) == {library[n] : n \in {n \in Imported(role, agent) : library[n] # None}}

Resolves(agent) ==
  /\ \A m \in ModulesOf(library), t \in Tools : ~Denied(m, t)
  /\ \A r \in AllRoles : Defined(r) =>
       /\ \A n \in Imported(r, agent) : library[n] # None
       /\ Linkable(Fences, Pack(r, agent))

\* The policy a caller with this role is judged by; an unknown role is the default's.
PolicyFor(role, agent) ==
  Link(Fences, Pack(IF Defined(role) THEN role ELSE DefaultRole, agent))

-----------------------------------------------------------------------------
(* The verdict on a call.                                                    *)

Case(policy, call) ==
  <<IF policy.consts = {} THEN CHOOSE v \in Values : TRUE
    ELSE CHOOSE v \in policy.consts : TRUE, call>>

\* An unlisted key, reserved or not, is denied: the default of a link is deny.
Verdict(policy, t, call) ==
  LET rule == policy.tools[t]
  IN  IF rule # None /\ rule.mode \in Grants /\ Case(policy, call) \in And(rule.constraints)
      THEN rule.mode ELSE "deny"

\* A gate engages when some role's policy has a key of it.
Engaged(agent) ==
  \E r \in AllRoles, k \in Reserved : Defined(r) /\ PolicyFor(r, agent).tools[k] # None

\* What becomes of a call, or of a run, a handoff or a skill, at its gate.
Outcome(role, agent, t, call) ==
  IF t \in Reserved /\ ~Engaged(agent) THEN "allow"
  ELSE Verdict(PolicyFor(role, agent), t, call)

-----------------------------------------------------------------------------
(* The authors of a project edit its files one at a time.                   *)

SaveBoundary(n, m) ==
  /\ boundaries' = [boundaries EXCEPT ![n] = m]
  /\ UNCHANGED <<library, roles>>

SaveCapability(n, m) ==
  /\ library' = [library EXCEPT ![n] = m]
  /\ UNCHANGED <<boundaries, roles>>

\* A role the file has not named yet gets a cell at a time.
Bind(role, agent, cell) ==
  LET matrix == IF roles = None THEN [r \in Roles |-> None] ELSE roles
      cells == IF matrix[role] = None
               THEN [a \in Agents \cup {AnyAgent} |-> None] ELSE matrix[role]
  IN  /\ roles' = [matrix EXCEPT ![role] = [cells EXCEPT ![agent] = cell]]
      /\ UNCHANGED <<boundaries, library>>

Next ==
  \/ \E n \in BoundaryNames, m \in BoundaryForms \cup {None} : SaveBoundary(n, m)
  \/ \E n \in CapabilityNames, m \in CapabilityForms \cup {None} : SaveCapability(n, m)
  \/ \E r \in Roles, a \in Agents \cup {AnyAgent}, c \in Cells : Bind(r, a, c)

Spec == Init /\ [][Next]_vars

-----------------------------------------------------------------------------
(* What composition promises.                                               *)

\* What is saved is a project (loaded by module_loader.py).
TypeOK ==
  /\ boundaries \in [BoundaryNames -> Modules \cup {None}]
  /\ library \in [CapabilityNames -> Modules \cup {None}]
  /\ roles \in Bindings

\* The layers, read one by one: a boundary refuses what it denies, and a ceiling
\* what it does not allow; a capability grants what its constraints hold of.
Refuses(b, t, x) ==
  \/ Denied(b, t) /\ x \in And(b.tools[t].constraints)
  \/ Granted(b, t) /\ x \notin And(b.tools[t].constraints)
  \/ ~Granted(b, t) /\ b.default = "deny"

GrantsCase(c, t, x) == Granted(c, t) /\ x \in And(c.tools[t].constraints)

Permits(bs, cs, t, x) ==
  (\A b \in bs : ~Refuses(b, t, x)) /\ \E c \in cs : GrantsCase(c, t, x)

Approves(m, t) == Granted(m, t) /\ m.tools[t].mode = "approval_required"

\* Fences intersect, grants union, denies win: what the folded policy lets through
\* is what every boundary permits and some capability of the role grants, and no
\* boundary's or applicable grant's demand for an approval is lost
\* (linker.py:13-27, _fold_tool).
LayersCompose ==
  \A a \in Agents : Resolves(a) =>
    \A r \in AllRoles : Defined(r) =>
      LET policy == PolicyFor(r, a)
          pack == Pack(r, a)
      IN  \A t \in Tools, call \in Calls :
            LET x == Case(policy, call)
                verdict == Verdict(policy, t, call)
            IN  /\ verdict # "deny" <=> Permits(Fences, pack, t, x)
                /\ verdict = "allow" =>
                     /\ \A b \in Fences : ~Approves(b, t)
                     /\ \A c \in pack : GrantsCase(c, t, x) => ~Approves(c, t)

Rank(outcome) ==
  CASE outcome = "deny" -> 0 [] outcome = "approval_required" -> 1 [] outcome = "allow" -> 2

\* A boundary that is added where there was none widens nothing: no call, no run
\* and no handoff of any role or agent gets further than it did, and none that a
\* gate held back is let by because the gate no longer engages
\* (linker.py:383-388, _is_closed_world_key).
BoundaryOnlyNarrows ==
  [][\A n \in BoundaryNames, a \in Agents :
       (boundaries[n] = None /\ boundaries'[n] # None /\ Resolves(a) /\ Resolves(a)')
         => \A r \in AllRoles, t \in Tools, call \in Calls :
              Rank(Outcome(r, a, t, call))' <= Rank(Outcome(r, a, t, call))]_vars
=============================================================================
