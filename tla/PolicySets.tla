----------------------------- MODULE PolicySets -----------------------------
(* A role-keyed policy document: loaded (inheritance flattened, mixins left   *)
(* out, a default named), then decided by either of two engines: the one that *)
(* reads the loaded policy and the one that runs the rules it compiles to.    *)
(* A constraint is the set of <<role fact, call>> it holds of; a document is  *)
(* edited one role at a time.                                                 *)
EXTENDS Naturals, Sequences, SequencesExt

CONSTANTS
  Names,           \* of roles, numbered in alphabetical order
  Default,         \* the name "default", one of them
  RoleForms,       \* what an author writes under a role
  Fences,          \* file-level constraints to choose from
  Tools, Reserved, \* keys a call may have; those of the agent and skill gates
  Calls,
  Unknown,         \* a role no document defines
  Callers,         \* the roles callers claim, in their order, some of them none
  MaxEvaluatedRoles,
  None

\* Of the constants; assumed by the modules that give them values.
PolicySetsAssumption ==
  Default \in Names /\ Names \subseteq Nat /\ Reserved \subseteq Tools

VARIABLES
  raw,      \* [Names -> what is written under the role, or None]
  fences    \* the file-level constraints

vars == <<raw, fences>>

Init == raw = [n \in Names |-> None] /\ fences = {}

-----------------------------------------------------------------------------
(* Loading.                                                                  *)

Deny == [mode |-> "deny", constraints |-> {}]

Nothing == [default |-> None, constraints |-> {}, tools |-> [t \in Tools |-> None],
            usage |-> None]

Said(own, inherited) == IF own # None THEN own ELSE inherited

\* (Mutant) The nearer constraints override like everything else.
OverlayReplacing(far, near) ==
  [default |-> Said(near.default, far.default), constraints |-> near.constraints,
   tools |-> [t \in Tools |-> Said(near.tools[t], far.tools[t])],
   usage |-> Said(near.usage, far.usage)]

\* What is nearer overrides, but constraints accumulate.
Overlay(far, near) ==
  [default |-> Said(near.default, far.default),
   constraints |-> far.constraints \cup near.constraints,
   tools |-> [t \in Tools |-> Said(near.tools[t], far.tools[t])],
   usage |-> Said(near.usage, far.usage)]

\* Every role of the file gets its fences; a role that says nothing of unlisted
\* tools denies them, also when it is inherited after one that says something.
Own(n) ==
  [default |-> raw[n].default, constraints |-> fences \cup raw[n].constraints,
   tools |-> raw[n].tools, usage |-> raw[n].usage]

Settled(policy) == [policy EXCEPT !.default = Said(@, Deny)]

\* None: a cycle or a parent that is not there.
RECURSIVE Resolve(_, _)
Resolve(n, chain) ==
  IF n \in chain \/ raw[n] = None THEN None
  ELSE LET parents == [i \in DOMAIN raw[n].inherits |->
                         Resolve(raw[n].inherits[i], chain \cup {n})]
       IN  IF \E i \in DOMAIN parents : parents[i] = None THEN None
           ELSE Settled(FoldLeft(Overlay, Nothing, Append(parents, Own(n))))

Written == {n \in Names : raw[n] # None}

Concrete == {n \in Written : ~raw[n].mixin}

Resolved(n) == Resolve(n, {})

OnUnavailable(policy) == Said(policy.usage, "allow")

\* The fail mode of usage is the agent's: every role resolves to the same one.
Loads ==
  /\ \A n \in Written : Resolved(n) # None
  /\ Concrete # {}
  /\ \A m, n \in Concrete : OnUnavailable(Resolved(m)) = OnUnavailable(Resolved(n))

Fallback ==
  IF Default \in Concrete THEN Default
  ELSE CHOOSE n \in Concrete : \A m \in Concrete : n <= m

PolicySet == [n \in Concrete \cup {Default} |->
                IF n \in Concrete THEN Resolved(n) ELSE Resolved(Fallback)]

-----------------------------------------------------------------------------
(* The engine that reads the policies.                                       *)

PolicyFor(role) == PolicySet[IF role \in DOMAIN PolicySet THEN role ELSE Default]

ToolPolicy(policy, t) ==
  CASE policy.tools[t] # None -> policy.tools[t]
    [] policy.tools[t] = None /\ t \in Reserved -> Deny
    [] OTHER -> policy.default

Holds(constraints, x) == \A c \in constraints : x \in c

\* A caller without roles has the role None, which is the fact constraints read.
Evaluate(role, t, call) ==
  LET policy == PolicyFor(role)
      rule == ToolPolicy(policy, t)
  IN  IF rule.mode # "deny" /\ Holds(policy.constraints \cup rule.constraints, <<role, call>>)
      THEN rule.mode ELSE "deny"

-----------------------------------------------------------------------------
(* The rules the document compiles to, and the engine that runs them.        *)

\* (Mutant) The default's rules are for everybody.
RoleGuardOfAll(n) == IF n # Default THEN {n} ELSE Names \cup {Unknown}

\* The default's rules are for whoever has none of the other names.
RoleGuard(n) ==
  IF n # Default THEN {n} ELSE (Names \cup {Unknown}) \ (DOMAIN PolicySet \ {Default})

ToolGuard(policy, t) ==
  IF t # None THEN {t} ELSE {u \in Tools \ Reserved : policy.tools[u] = None}

\* The rule of a listed tool, or of the others (None); a deny emits no rule.
CompiledRule(n, t) ==
  LET policy == PolicySet[n]
      rule == IF t = None THEN policy.default ELSE policy.tools[t]
  IN  [roles |-> RoleGuard(n), tools |-> ToolGuard(policy, t), head |-> rule.mode,
       constraints |-> policy.constraints \cup rule.constraints]

CompiledRules ==
  {rule \in {CompiledRule(n, t) : <<n, t>> \in
       {p \in (DOMAIN PolicySet) \X (Tools \cup {None}) :
          p[2] = None \/ PolicySet[p[1]].tools[p[2]] # None}} :
     rule.head # "deny"}

\* A caller without roles is given the name of the default role.
InputRole(role) == IF role = None THEN Default ELSE role

Decide(role, t, call) ==
  LET fired == {rule \in CompiledRules :
                  /\ InputRole(role) \in rule.roles /\ t \in rule.tools
                  /\ Holds(rule.constraints, <<InputRole(role), call>>)}
      heads == {rule.head : rule \in fired}
  IN  CASE "allow" \in heads -> "allow"
        [] "allow" \notin heads /\ "approval_required" \in heads -> "approval_required"
        [] OTHER -> "deny"

-----------------------------------------------------------------------------
(* A caller's roles.                                                         *)

\* At most so many roles are asked; a caller with none is asked for as None.
RolesToEvaluate(roles) ==
  IF roles = <<>> THEN <<None>>
  ELSE SubSeq(roles, 1, IF Len(roles) > MaxEvaluatedRoles THEN MaxEvaluatedRoles ELSE Len(roles))

\* Any role that grants outright does, then any that grants with an approval.
Combined(verdicts) ==
  CASE "allow" \in verdicts -> "allow"
    [] "allow" \notin verdicts /\ "approval_required" \in verdicts -> "approval_required"
    [] OTHER -> "deny"

-----------------------------------------------------------------------------
(* A document is edited.                                                     *)

Write(n, form) == raw' = [raw EXCEPT ![n] = form] /\ UNCHANGED fences

WriteFences(S) == fences' = S /\ UNCHANGED raw

Next ==
  \/ \E n \in Names, form \in RoleForms \cup {None} : Write(n, form)
  \/ \E S \in SUBSET Fences : WriteFences(S)

Spec == Init /\ [][Next]_vars

-----------------------------------------------------------------------------

Agree(callers) ==
  Loads =>
    \A roles \in callers, t \in Tools, call \in Calls :
      LET asked == ToSet(RolesToEvaluate(roles))
      IN  Combined({Evaluate(role, t, call) : role \in asked})
            = Combined({Decide(role, t, call) : role \in asked})


\* The same for a caller without roles, as tests/security/test_engine_parity.py:3-5
\* has it ("must decide identically for every input").
EnginesAgreeOnAnyone == Agree(Callers)

Ancestors(n) ==
  LET RECURSIVE Above(_, _)
      Above(k, S) == IF k = 0 THEN S
                     ELSE Above(k - 1, S \cup UNION {ToSet(raw[m].inherits) : m \in S})
  IN  Above(Cardinality(Names), {n})

\* Nothing a role inherits can be dropped that holds it back: whatever is called,
\* it is let through only if every constraint of the file, the role and all of its
\* ancestors holds, and a fail mode of deny is only lost to a role or a nearer
\* ancestor that says otherwise (policy_set.py:723-805).
FencesAreKept ==
  Loads => \A n \in Concrete :
    /\ \A t \in Tools, call \in Calls :
         Evaluate(n, t, call) # "deny" =>
           Holds(fences \cup UNION {raw[m].constraints : m \in Ancestors(n)}, <<n, call>>)
    /\ {"deny"} = {raw[m].usage : m \in Ancestors(n)} \ {None}
         => OnUnavailable(Resolved(n)) = "deny"
=============================================================================
