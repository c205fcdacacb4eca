---------------------------- MODULE PolicyLints ----------------------------
(* What the analyzer says of a project that resolves (analyzer.py): grants    *)
(* that never fire, that repeat one another or lose their conditions,         *)
(* capabilities nobody imports, and rules on a name the code does not have.   *)
(* A lint is a set of the grants, modules or rules it is reported for; the    *)
(* properties hold it against what the linked policy decides.                 *)
EXTENDS PolicyLinker

\* The capabilities a cell imports, by name.
Imports(role, agent) == {n \in Imported(role, agent) : library[n] # None}

\* The grants a cell's capabilities make, as <<capability, key>>.
CellGrants(role, agent) ==
  {g \in Imports(role, agent) \X Tools : Granted(library[g[1]], g[2])}

\* A grant whose key the effective policy does not grant.
DeadGrants(role, agent) ==
  LET effective == PolicyFor(role, agent)
  IN  {g \in CellGrants(role, agent) : ~Granted(effective, g[2])}

\* (Mutant) The conditions of the two are not compared.
SameRuleByMode(r, s) == r.mode = s.mode

SameRule(r, s) == r.mode = s.mode /\ r.constraints = s.constraints

\* One of two alike; which one depends on the order of the modules.
RedundantGrants(role, agent) ==
  {g \in CellGrants(role, agent) :
     \E h \in CellGrants(role, agent) :
       /\ h[1] # g[1] /\ h[2] = g[2]
       /\ SameRule(library[g[1]].tools[g[2]], library[h[1]].tools[h[2]])}

\* A grant under conditions, next to one of the same key without any.
ErasedConstraints(role, agent) ==
  {g \in CellGrants(role, agent) :
     /\ library[g[1]].tools[g[2]].constraints # {}
     /\ \E h \in CellGrants(role, agent) :
          h[2] = g[2] /\ library[h[1]].tools[h[2]].constraints = {}}

\* (Mutant) Only what agents get that have no cell of their own counts.
ImportedByAny ==
  UNION {Imported(r, AnyAgent) : r \in {r \in AllRoles : Defined(r)}}

\* Every column of the matrix counts, without roles.yaml the whole library.
AllImported ==
  IF roles = None THEN CapabilityNames
  ELSE UNION ({roles[r][a] : <<r, a>> \in
                 {c \in Roles \X (Agents \cup {AnyAgent}) :
                    roles[c[1]] # None /\ roles[c[1]][c[2]] # None}})

UnusedCapabilities == {n \in CapabilityNames : library[n] # None} \ AllImported

-----------------------------------------------------------------------------
(* A rule on a name that is no tool, agent or skill: how bad it is.          *)

\* Of a tool or a skill: a boundary's grant leaves the real one uncapped.
UnknownToolSeverity(tier, mode) ==
  CASE tier = "capability" -> "warning"
    [] tier = "boundary" /\ mode = "deny" -> "info"
    [] OTHER -> "error"

\* (Mutant) A boundary's deny is taken for harmless like a tool's.
TargetSeverityLikeTool(tier, m, rule) == UnknownToolSeverity(tier, rule.mode)

\* Of an agent that is reached, by what the real one falls back to.
UnknownTargetSeverity(tier, m, rule) ==
  CASE tier = "capability" -> "warning"
    [] tier = "boundary" /\ m.default = "deny" ->
         IF rule.mode = "deny" THEN "info" ELSE "warning"
    [] OTHER -> IF rule.mode # "allow" \/ rule.constraints # {} THEN "error" ELSE "info"

Severity(tier, m, t) ==
  IF t \in Reserved THEN UnknownTargetSeverity(tier, m, m.tools[t])
  ELSE UnknownToolSeverity(tier, m.tools[t].mode)

\* (Mutant) The two cells are compared in size.
StarWidensByCount(r, a) == roles[r][AnyAgent] # None /\ roles[r][a] = {}

\* A column of the matrix whose agent is not registered, so that the agent it was
\* meant for, one that has no cell of its own, gets "*": an error where "*" imports
\* what the column leaves out.
StarWidens(r, a) == roles[r][AnyAgent] # None /\ roles[r][AnyAgent] \ roles[r][a] # {}

-----------------------------------------------------------------------------
(* What the lints are worth.                                                 *)

\* A project that was edited: its boundaries, and its capabilities.
VerdictIn(bs, lib, role, agent, t, call) ==
  LET r == IF Defined(role) THEN role ELSE DefaultRole
  IN  Verdict(Link(ModulesOf(bs), {lib[n] : n \in Imports(r, agent)}), t, call)

Rewritten(files, n, t, rule) == [files EXCEPT ![n] = [@ EXCEPT !.tools[t] = rule]]

\* A grant reported as dead lets nothing through.  To take out a grant that is
\* dead or repeats another, to drop the conditions of one that lost them, or to
\* delete a capability nobody imports, changes no verdict in the cell the lint is
\* about (analyzer.py: _dead_grants, _redundant_grants, _constraint_erased,
\* _unused_capabilities).
LintsTellTheTruth ==
  \A a \in Agents : Resolves(a) =>
    /\ \A r \in AllRoles : Defined(r) =>
         LET Same(lib, t) ==
               \A call \in Calls :
                 VerdictIn(boundaries, lib, r, a, t, call) = Verdict(PolicyFor(r, a), t, call)
         IN  /\ \A g \in DeadGrants(r, a) :
                  \A call \in Calls : Verdict(PolicyFor(r, a), g[2], call) = "deny"
             /\ \A g \in DeadGrants(r, a) \cup RedundantGrants(r, a) :
                  Same(Rewritten(library, g[1], g[2], None), g[2])
             /\ \A g \in ErasedConstraints(r, a) :
                  Same(Rewritten(library, g[1], g[2],
                         [library[g[1]].tools[g[2]] EXCEPT !.constraints = {}]), g[2])
    /\ \A n \in UnusedCapabilities, r \in AllRoles :
         Defined(r) => n \notin Imports(r, a)

\* A rule or a column whose name was misspelt, so that the real tool or agent goes
\* without it, is reported as an error when some caller thereby gets further than
\* was meant.  Two cases are graded lower: a boundary's deny of a tool, and a
\* capability's demand for an approval, which holds for the grants of the others
\* as well (analyzer.py:18-20, _modules_drift, _unknown_target_severity,
\* _unknown_agent).
FailOpenIsAnError ==
  \A a \in Agents : Resolves(a) =>
    \A r \in AllRoles, t \in Tools, call \in Calls : Defined(r) =>
      LET meant == Rank(Verdict(PolicyFor(r, a), t, call))
          Looser(bs, lib) == Rank(VerdictIn(bs, lib, r, a, t, call)) > meant
      IN  /\ \A n \in BoundaryNames :
               (boundaries[n] # None /\ Lists(boundaries[n], t)
                 /\ Looser(Rewritten(boundaries, n, t, None), library))
               => \/ Severity("boundary", boundaries[n], t) = "error"
                  \/ t \notin Reserved /\ Denied(boundaries[n], t)
          /\ \A n \in Imports(r, a) :
               (Lists(library[n], t) /\ Looser(boundaries, Rewritten(library, n, t, None)))
               => library[n].tools[t].mode = "approval_required"
          /\ (r \in Roles /\ roles[r][a] # None /\ ~StarWidens(r, a) /\ Resolves(AnyAgent)
                /\ Rank(Verdict(PolicyFor(r, AnyAgent), t, call)) > meant)
               => \E n \in Imports(r, a) :
                    Lists(library[n], t) /\ library[n].tools[t].mode = "approval_required"
=============================================================================
