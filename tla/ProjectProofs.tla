---------------------------- MODULE ProjectProofs ----------------------------
(* Theorems about a project for every set of modules, tools, roles, agents,   *)
(* members, requests and threads, and whatever constraints hold of: what       *)
(* PolicyLinker makes of the modules, and what MCRows says of the policy that  *)
(* is stored, of the members and their keys, and of the engines.               *)
EXTENDS MCRows, SequenceTheorems, FiniteSetTheorems, TLAPS

-----------------------------------------------------------------------------
(* The shape of a project.                                                    *)

LEMMA InitTyped == Init => TypeOK
BY DEF Init, TypeOK, Bindings

\* A role that is bound cell by cell keeps the shape of a matrix.
LEMMA BindTyped ==
  ASSUME TypeOK, NEW r \in Roles, NEW a \in Agents \cup {AnyAgent}, NEW c \in Cells,
         Bind(r, a, c)
  PROVE  TypeOK'
<1> DEFINE Columns == [Agents \cup {AnyAgent} -> Cells]
           matrix == IF roles = None THEN [q \in Roles |-> None] ELSE roles
           cells == IF matrix[r] = None
                    THEN [b \in Agents \cup {AnyAgent} |-> None] ELSE matrix[r]
<1>1. matrix \in [Roles -> Columns \cup {None}]
  <2>1. CASE roles = None
    BY <2>1
  <2>2. CASE roles # None
    BY <2>2 DEF TypeOK, Bindings
  <2>3. QED BY <2>1, <2>2
<1>2. cells \in Columns
  <2>1. None \in Cells
    BY DEF Cells
  <2>2. CASE matrix[r] = None
    BY <2>1, <2>2
  <2>3. CASE matrix[r] # None
    BY <1>1, <2>3
  <2>4. QED BY <2>2, <2>3
<1>3. [cells EXCEPT ![a] = c] \in Columns
  BY <1>2
<1>4. [matrix EXCEPT ![r] = [cells EXCEPT ![a] = c]] \in [Roles -> Columns \cup {None}]
  BY <1>1, <1>3
<1>5. roles' = [matrix EXCEPT ![r] = [cells EXCEPT ![a] = c]] /\ UNCHANGED <<boundaries, library>>
  BY DEF Bind
<1> HIDE DEF matrix, cells
<1>6. roles' \in Bindings
  BY <1>4, <1>5 DEF Bindings
<1>7. QED BY <1>5, <1>6 DEF TypeOK

LEMMA NextTyped == TypeOK /\ [Next]_vars => TypeOK'
<1> SUFFICES ASSUME TypeOK, [Next]_vars PROVE TypeOK'
  OBVIOUS
<1>1. ASSUME NEW n \in BoundaryNames, NEW m \in BoundaryForms \cup {None}, SaveBoundary(n, m)
      PROVE  TypeOK'
  <2>1. m \in Modules \cup {None}
    BY LinkerAssumption
  <2>2. QED BY <1>1, <2>1 DEF SaveBoundary, TypeOK
<1>2. ASSUME NEW n \in CapabilityNames, NEW m \in CapabilityForms \cup {None}, SaveCapability(n, m)
      PROVE  TypeOK'
  <2>1. m \in Modules \cup {None}
    BY LinkerAssumption
  <2>2. QED BY <1>2, <2>1 DEF SaveCapability, TypeOK
<1>3. ASSUME NEW r \in Roles, NEW a \in Agents \cup {AnyAgent}, NEW c \in Cells, Bind(r, a, c)
      PROVE  TypeOK'
  BY <1>3, BindTyped
<1>4. CASE UNCHANGED vars
  BY <1>4 DEF TypeOK, vars
<1>5. QED BY <1>1, <1>2, <1>3, <1>4 DEF Next

\* Whatever its authors save, in whatever order, a project has the shape the
\* linker reads (module_loader.py:53-170).
THEOREM ProjectTyped == Spec => []TypeOK
BY InitTyped, NextTyped, PTL DEF Spec

-----------------------------------------------------------------------------
(* The fold.                                                                  *)

\* A rule of a module is a conjunction of sets of cases.
LEMMA RuleTyped ==
  ASSUME NEW m \in Modules, NEW t \in Tools, Lists(m, t)
  PROVE  m.tools[t] \in Rules /\ m.tools[t].constraints \subseteq SUBSET Cases
BY DEF Modules, Rules, Lists

\* One conjunction of two lists of constraints.
LEMMA AndOfUnion ==
  ASSUME NEW C, NEW D
  PROVE  And(C \cup D) = And(C) \cap And(D)
BY DEF And

LEMMA InCeilings ==
  ASSUME NEW bs, NEW t, NEW x \in Cases
  PROVE  x \in And(Ceilings(bs, t)) <=>
           \A b \in bs : Granted(b, t) => x \in And(b.tools[t].constraints)
BY DEF And, Ceilings

LEMMA InUnion ==
  ASSUME NEW gs, NEW t, NEW x \in Cases, gs # {}
  PROVE  x \in And(Union(gs, t)) <=> \E g \in gs : x \in And(g.tools[t].constraints)
<1>1. CASE \E g \in gs : g.tools[t].constraints = {}
  <2>1. And(Union(gs, t)) = Cases
    BY <1>1 DEF And, Union
  <2>2. \E g \in gs : x \in And(g.tools[t].constraints)
    BY <1>1 DEF And
  <2>3. QED BY <2>1, <2>2
<1>2. CASE ~\E g \in gs : g.tools[t].constraints = {}
  <2> DEFINE U == UNION {And(g.tools[t].constraints) : g \in gs}
  <2>1. Union(gs, t) = {U}
    BY <1>2 DEF Union
  <2>2. x \in And({U}) <=> x \in U
    BY DEF And
  <2>3. x \in U <=> \E g \in gs : x \in And(g.tools[t].constraints)
    OBVIOUS
  <2>4. QED BY <2>1, <2>2, <2>3
<1>3. QED BY <1>1, <1>2

LEMMA InSubtracted ==
  ASSUME NEW bs, NEW t, NEW x \in Cases
  PROVE  x \in And(Subtracted(bs, t)) <=>
           \A b \in bs : Denied(b, t) => x \notin And(b.tools[t].constraints)
<1> DEFINE Region(b) == And(b.tools[t].constraints)
           D == {b \in bs : Denied(b, t)}
<1>1. Subtracted(bs, t) = {Cases \ Region(b) : b \in D}
  BY DEF Subtracted
<1>2. x \in And(Subtracted(bs, t)) <=> \A c \in Subtracted(bs, t) : x \in c
  BY DEF And
<1> HIDE DEF Region
<1>3. x \in And(Subtracted(bs, t)) <=> \A b \in D : x \in Cases \ Region(b)
  BY <1>1, <1>2
<1>4. QED BY <1>3 DEF Region

\* What the fold makes of a tool that is eligible and granted.
FoldedConstraints(bs, cs, t) ==
  Ceilings(bs, t) \cup Union(GrantsOf(cs, t), t) \cup Subtracted(bs, t)

LEMMA FoldedTyped ==
  ASSUME NEW bs \in SUBSET Modules, NEW cs \in SUBSET Modules, NEW t \in Tools
  PROVE  FoldedConstraints(bs, cs, t) \in SUBSET SUBSET Cases
<1>1. Ceilings(bs, t) \subseteq SUBSET Cases
  BY RuleTyped DEF Ceilings, Granted
<1>2. Union(GrantsOf(cs, t), t) \subseteq SUBSET Cases
  BY DEF Union, And
<1>3. Subtracted(bs, t) \subseteq SUBSET Cases
  BY DEF Subtracted
<1>4. QED BY <1>1, <1>2, <1>3 DEF FoldedConstraints

Grantable(bs, cs, t) ==
  ~HardDenied(bs, t) /\ ~Ineligible(bs, t) /\ GrantsOf(cs, t) # {}

\* The rule of a tool that can be granted, and that there is none otherwise.
LEMMA FoldCases ==
  ASSUME NEW bs \in SUBSET Modules, NEW cs \in SUBSET Modules, NEW t \in Tools
  PROVE  LET rule == FoldTool(bs, cs, t)
         IN  /\ Grantable(bs, cs, t) =>
                  /\ rule # None
                  /\ rule.mode = IF AnyApproval(bs, cs, t) THEN "approval_required" ELSE "allow"
                  /\ rule.constraints = FoldedConstraints(bs, cs, t)
             /\ ~Grantable(bs, cs, t) => rule \in {None, Deny}
<1>1. CASE Grantable(bs, cs, t)
  <2>1. \E m \in bs \cup cs : Lists(m, t)
    BY <1>1 DEF Grantable, GrantsOf, Granted
  <2> DEFINE rule == [mode |-> IF AnyApproval(bs, cs, t) THEN "approval_required" ELSE "allow",
                      constraints |-> FoldedConstraints(bs, cs, t)]
  <2>2. FoldTool(bs, cs, t) = rule
    BY <1>1, <2>1 DEF FoldTool, Grantable, FoldedConstraints
  <2>3. rule \in Rules
    BY FoldedTyped DEF Rules, Grants
  <2>4. rule # None
    BY <2>3, LinkerAssumption
  <2>5. QED BY <1>1, <2>2, <2>4
<1>2. CASE ~Grantable(bs, cs, t)
  <2>1. CASE \A m \in bs \cup cs : ~Lists(m, t)
    <3>1. ~HardDenied(bs, t)
      BY <2>1 DEF HardDenied, Denied
    <3>2. QED BY <1>2, <2>1, <3>1 DEF FoldTool
  <2>2. CASE ~\A m \in bs \cup cs : ~Lists(m, t)
    BY <1>2, <2>2 DEF FoldTool, Grantable, Omitted
  <2>3. QED BY <2>1, <2>2
<1>3. QED BY <1>1, <1>2

\* A layer that refuses shows in the fold, and so does the lack of a grant.
LEMMA PermitsGrantable ==
  ASSUME NEW bs, NEW cs, NEW t, NEW x, Permits(bs, cs, t, x)
  PROVE  Grantable(bs, cs, t) /\ x \in Cases
<1>1. GrantsOf(cs, t) # {} /\ x \in Cases
  BY DEF Permits, GrantsCase, GrantsOf, And
<1>2. ~Ineligible(bs, t)
  BY DEF Permits, Refuses, Ineligible
<1>3. ~HardDenied(bs, t)
  BY <1>1 DEF Permits, Refuses, HardDenied, And
<1>4. QED BY <1>1, <1>2, <1>3 DEF Grantable

LEMMA FoldedHolds ==
  ASSUME NEW bs \in SUBSET Modules, NEW cs \in SUBSET Modules, NEW t \in Tools,
         NEW x \in Cases, Grantable(bs, cs, t)
  PROVE  x \in And(FoldedConstraints(bs, cs, t)) <=> Permits(bs, cs, t, x)
<1>1. x \in And(FoldedConstraints(bs, cs, t)) <=>
        /\ x \in And(Ceilings(bs, t))
        /\ x \in And(Union(GrantsOf(cs, t), t))
        /\ x \in And(Subtracted(bs, t))
  <2> DEFINE C == Ceilings(bs, t)
             U == Union(GrantsOf(cs, t), t)
             S == Subtracted(bs, t)
  <2>1. FoldedConstraints(bs, cs, t) = (C \cup U) \cup S
    BY DEF FoldedConstraints
  <2> HIDE DEF C, U, S
  <2>2. And((C \cup U) \cup S) = And(C \cup U) \cap And(S)
    BY AndOfUnion
  <2>3. And(C \cup U) = And(C) \cap And(U)
    BY AndOfUnion
  <2>4. QED BY <2>1, <2>2, <2>3 DEF C, U, S
<1>2. x \in And(Union(GrantsOf(cs, t), t)) <=> \E c \in cs : GrantsCase(c, t, x)
  BY InUnion DEF Grantable, GrantsOf, GrantsCase
<1>3. /\ x \in And(Ceilings(bs, t))
      /\ x \in And(Subtracted(bs, t))
      <=> \A b \in bs : ~Refuses(b, t, x)
  BY InCeilings, InSubtracted DEF Refuses, Grantable, Ineligible
<1>4. QED BY <1>1, <1>2, <1>3 DEF Permits

\* The folded policy, read by the verdict, is the layers, read one by one.
LEMMA LinkComposes ==
  ASSUME NEW bs \in SUBSET Modules, NEW cs \in SUBSET Modules, NEW t \in Tools, NEW call
  PROVE  LET policy == Link(bs, cs)
             x == Case(policy, call)
             verdict == Verdict(policy, t, call)
         IN  /\ verdict # "deny" <=> Permits(bs, cs, t, x)
             /\ verdict = "allow" =>
                  /\ \A b \in bs : ~Approves(b, t)
                  /\ \A c \in cs : GrantsCase(c, t, x) => ~Approves(c, t)
<1> DEFINE policy == Link(bs, cs)
           x == Case(policy, call)
           rule == FoldTool(bs, cs, t)
           verdict == Verdict(policy, t, call)
<1>1. policy.tools[t] = rule
  BY DEF Link
<1>2. verdict = IF rule # None /\ rule.mode \in Grants /\ x \in And(rule.constraints)
                THEN rule.mode ELSE "deny"
  BY <1>1 DEF Verdict
<1> HIDE DEF policy, x, rule, verdict
<1>3. CASE Grantable(bs, cs, t)
  <2>1. /\ rule # None
        /\ rule.mode = IF AnyApproval(bs, cs, t) THEN "approval_required" ELSE "allow"
        /\ rule.constraints = FoldedConstraints(bs, cs, t)
    BY <1>3, FoldCases DEF rule
  <2>2. x \in And(rule.constraints) <=> Permits(bs, cs, t, x)
    BY <1>3, <2>1, FoldedHolds, PermitsGrantable DEF And
  <2>3. verdict # "deny" <=> Permits(bs, cs, t, x)
    BY <1>2, <2>1, <2>2 DEF Grants
  <2>4. verdict = "allow" => ~AnyApproval(bs, cs, t)
    BY <1>2, <2>1 DEF Grants
  <2>5. ~AnyApproval(bs, cs, t) => \A m \in bs \cup cs : ~Approves(m, t)
    BY DEF AnyApproval, Approves, Granted
  <2>6. QED BY <2>3, <2>4, <2>5 DEF policy, x, verdict
<1>4. CASE ~Grantable(bs, cs, t)
  <2>1. rule \in {None, Deny}
    BY <1>4, FoldCases DEF rule
  <2>2. verdict = "deny"
    BY <1>2, <2>1 DEF Deny, Grants
  <2>3. ~Permits(bs, cs, t, x)
    BY <1>4, PermitsGrantable
  <2>4. QED BY <2>2, <2>3 DEF policy, x, verdict
<1>5. QED BY <1>3, <1>4

LEMMA LayersTyped ==
  ASSUME TypeOK, NEW r, NEW a \in Agents
  PROVE  Fences \in SUBSET Modules /\ Pack(r, a) \in SUBSET Modules
<1>1. Fences \in SUBSET Modules
  BY DEF TypeOK, Fences, ModulesOf
<1>2. Pack(r, a) \in SUBSET Modules
  <2>1. ASSUME NEW n \in Imported(r, a), library[n] # None PROVE library[n] \in Modules
    <3>1. n \in CapabilityNames
      <4>1. CASE roles = None
        <5>1. Imported(r, a) \subseteq CapabilityNames
          BY <4>1 DEF Imported
        <5>2. QED BY <5>1
      <4>2. CASE roles # None /\ r \in Roles /\ roles[r] # None
        <5>1. roles[r] \in [Agents \cup {AnyAgent} -> Cells]
          BY <4>2 DEF TypeOK, Bindings
        <5>2. Cell(roles[r], a) \subseteq CapabilityNames
          BY <5>1 DEF Cell, Cells
        <5>3. QED BY <4>2, <5>2 DEF Imported
      <4>3. CASE ~(roles = None \/ (r \in Roles /\ roles[r] # None))
        <5>1. Imported(r, a) = {}
          BY <4>3 DEF Imported
        <5>2. QED BY <5>1
      <4>4. QED BY <4>1, <4>2, <4>3
    <3>2. QED BY <2>1, <3>1 DEF TypeOK
  <2>2. QED BY <2>1 DEF Pack
<1>3. QED BY <1>1, <1>2

LEMMA TypedComposes == TypeOK => LayersCompose
<1> SUFFICES ASSUME TypeOK, NEW a \in Agents, NEW r \in AllRoles, Defined(r),
                    NEW t \in Tools, NEW call \in Calls
             PROVE  LET policy == PolicyFor(r, a)
                        x == Case(policy, call)
                        verdict == Verdict(policy, t, call)
                    IN  /\ verdict # "deny" <=> Permits(Fences, Pack(r, a), t, x)
                        /\ verdict = "allow" =>
                             /\ \A b \in Fences : ~Approves(b, t)
                             /\ \A c \in Pack(r, a) : GrantsCase(c, t, x) => ~Approves(c, t)
  BY DEF LayersCompose
<1>1. Fences \in SUBSET Modules /\ Pack(r, a) \in SUBSET Modules
  BY LayersTyped
<1>3. PolicyFor(r, a) = Link(Fences, Pack(r, a))
  BY DEF PolicyFor
<1>4. QED BY <1>1, <1>3, LinkComposes

\* Whatever modules a project has, and however its constraints fall, what a role's
\* folded policy lets through is what every boundary permits and some capability of
\* the role grants (linker.py:391-467).
THEOREM FencesAndGrants == Spec => []LayersCompose
BY ProjectTyped, TypedComposes, PTL

-----------------------------------------------------------------------------
(* One boundary more.                                                         *)

\* A case that a folded policy tells from another by the constant is one of a
\* project that has the constant.
LEMMA CaseUnread ==
  ASSUME NEW bs \in SUBSET Modules, NEW cs \in SUBSET Modules, NEW b \in Modules,
         NEW t \in Tools, NEW call \in Calls,
         Linkable(bs, cs), Linkable(bs \cup {b}, cs), Grantable(bs, cs, t),
         Case(Link(bs \cup {b}, cs), call) \in And(FoldedConstraints(bs, cs, t))
  PROVE  Case(Link(bs, cs), call) \in And(FoldedConstraints(bs, cs, t))
<1> DEFINE F == FoldedConstraints(bs, cs, t)
           C == Consts(bs \cup cs)
           D == Consts((bs \cup {b}) \cup cs)
           v == IF C = {} THEN CHOOSE w \in Values : TRUE ELSE CHOOSE w \in C : TRUE
           u == IF D = {} THEN CHOOSE w \in Values : TRUE ELSE CHOOSE w \in D : TRUE
<1>1. Case(Link(bs, cs), call) = <<v, call>> /\ Case(Link(bs \cup {b}, cs), call) = <<u, call>>
  BY DEF Case, Link
<1>2. C \subseteq D /\ D \subseteq Values
  BY DEF Consts, Modules
<1>3. <<u, call>> \in And(F)
  BY <1>1
<1>a. C # {} => v \in C
  OBVIOUS
<1>b. D # {} => u \in D
  OBVIOUS
<1>c. C = {} => v = CHOOSE w \in Values : TRUE
  OBVIOUS
<1> HIDE DEF F, v, u
<1>4. CASE C # {}
  <2>1. v \in C /\ u \in D
    BY <1>2, <1>4, <1>a, <1>b
  <2>2. \A w, z \in D : w = z
    BY DEF Linkable
  <2>3. u = v
    BY <1>2, <2>1, <2>2
  <2>4. QED BY <1>1, <1>3, <2>3
<1>5. CASE C = {}
  <2>1. \A c \in F : ~Reads(c)
    <3>1. FoldTool(bs, cs, t) # None /\ FoldTool(bs, cs, t).constraints = F
      BY FoldCases DEF F
    <3>2. QED BY <1>5, <3>1 DEF Linkable
  <2>2. u \in Values
    BY <1>3 DEF And, Cases
  <2>3. v \in Values
    BY <1>5, <1>c, <2>2
  <2>4. ASSUME NEW c \in F PROVE <<v, call>> \in c
    <3>1. <<u, call>> \in c
      BY <1>3 DEF And
    <3>2. QED BY <2>1, <2>2, <2>3, <3>1 DEF Reads
  <2>5. QED BY <1>1, <2>3, <2>4 DEF And, Cases, F
<1>6. QED BY <1>4, <1>5

LEMMA AddedBoundaryNarrows ==
  ASSUME NEW bs \in SUBSET Modules, NEW cs \in SUBSET Modules, NEW b \in Modules,
         NEW t \in Tools, NEW call \in Calls,
         Linkable(bs, cs), Linkable(bs \cup {b}, cs)
  PROVE  Rank(Verdict(Link(bs \cup {b}, cs), t, call)) <= Rank(Verdict(Link(bs, cs), t, call))
<1> DEFINE bs2 == bs \cup {b}
           x == Case(Link(bs2, cs), call)
           old == Verdict(Link(bs, cs), t, call)
           new == Verdict(Link(bs2, cs), t, call)
<1>0. bs2 \in SUBSET Modules
  OBVIOUS
<1>1. old \in Grants \cup {"deny"} /\ new \in Grants \cup {"deny"}
  BY DEF Verdict
<1>2. new # "deny" => Permits(bs2, cs, t, x)
  BY <1>0, LinkComposes
<1>3. CASE new = "deny"
  BY <1>1, <1>3 DEF Rank, Grants
<1>4. CASE new # "deny"
  <2>1. Permits(bs, cs, t, x)
    BY <1>2, <1>4 DEF Permits
  <2>2. Grantable(bs, cs, t) /\ Grantable(bs2, cs, t) /\ x \in Cases
    BY <1>2, <1>4, <2>1, PermitsGrantable
  <2>3. x \in And(FoldedConstraints(bs, cs, t))
    BY <2>1, <2>2, FoldedHolds
  <2>4. Case(Link(bs, cs), call) \in And(FoldedConstraints(bs, cs, t))
    BY <2>2, <2>3, CaseUnread
  <2>5. old = IF AnyApproval(bs, cs, t) THEN "approval_required" ELSE "allow"
    <3>1. /\ FoldTool(bs, cs, t) # None
          /\ FoldTool(bs, cs, t).mode = IF AnyApproval(bs, cs, t) THEN "approval_required" ELSE "allow"
          /\ FoldTool(bs, cs, t).constraints = FoldedConstraints(bs, cs, t)
      BY <2>2, FoldCases
    <3>2. Link(bs, cs).tools[t] = FoldTool(bs, cs, t)
      BY DEF Link
    <3>3. QED BY <2>4, <3>1, <3>2 DEF Verdict, Grants
  <2>6. new = IF AnyApproval(bs2, cs, t) THEN "approval_required" ELSE "allow"
    <3>1. /\ FoldTool(bs2, cs, t) # None
          /\ FoldTool(bs2, cs, t).mode = IF AnyApproval(bs2, cs, t) THEN "approval_required" ELSE "allow"
      BY <1>0, <2>2, FoldCases
    <3>2. Link(bs2, cs).tools[t] = FoldTool(bs2, cs, t)
      BY DEF Link
    <3>3. QED BY <1>4, <3>1, <3>2 DEF Verdict, Grants
  <2>7. AnyApproval(bs, cs, t) => AnyApproval(bs2, cs, t)
    BY DEF AnyApproval
  <2>8. QED BY <2>5, <2>6, <2>7 DEF Rank
<1>5. QED BY <1>3, <1>4

\* A gate that some role's policy has a key of keeps one.
LEMMA KeyIsKept ==
  ASSUME NEW bs \in SUBSET Modules, NEW cs \in SUBSET Modules, NEW b \in Modules,
         NEW k \in Reserved, FoldTool(bs, cs, k) # None
  PROVE  FoldTool(bs \cup {b}, cs, k) # None
<1>1. \E m \in (bs \cup {b}) \cup cs : Lists(m, k)
  <2>1. SUFFICES ASSUME \A m \in bs \cup cs : ~Lists(m, k) PROVE FALSE
    OBVIOUS
  <2>2. ~HardDenied(bs, k)
    BY <2>1 DEF HardDenied, Denied
  <2>3. QED BY <2>1, <2>2 DEF FoldTool
<1>2. k \in Tools
  BY LinkerAssumption
<1>3. CASE Grantable(bs \cup {b}, cs, k)
  BY <1>2, <1>3, FoldCases
<1>4. CASE ~Grantable(bs \cup {b}, cs, k)
  <2>1. FoldTool(bs \cup {b}, cs, k) = Deny
    BY <1>1, <1>4 DEF FoldTool, Grantable, Omitted
  <2>2. Deny \in Rules
    BY DEF Deny, Rules
  <2>3. QED BY <2>1, <2>2, LinkerAssumption
<1>5. QED BY <1>3, <1>4

\* What BoundaryOnlyNarrows says of a step.
Narrows ==
  \A n \in BoundaryNames, a \in Agents :
    (boundaries[n] = None /\ boundaries'[n] # None /\ Resolves(a) /\ Resolves(a)')
      => \A r \in AllRoles, t \in Tools, call \in Calls :
           Rank(Outcome(r, a, t, call))' <= Rank(Outcome(r, a, t, call))

LEMMA StepNarrows == TypeOK /\ [Next]_vars => [Narrows]_vars
<1> SUFFICES ASSUME TypeOK, Next,
                    NEW n \in BoundaryNames, NEW a \in Agents,
                    boundaries[n] = None, boundaries'[n] # None, Resolves(a), Resolves(a)',
                    NEW r \in AllRoles, NEW t \in Tools, NEW call \in Calls
             PROVE  Rank(Outcome(r, a, t, call))' <= Rank(Outcome(r, a, t, call))
  BY DEF Narrows
<1> DEFINE b == boundaries'[n]
           role(q) == IF Defined(q) THEN q ELSE DefaultRole
<1>1. UNCHANGED <<library, roles>> /\ b \in Modules /\ Fences' = Fences \cup {b}
  <2>1. PICK k \in BoundaryNames, m \in BoundaryForms \cup {None} : SaveBoundary(k, m)
    BY DEF Next, SaveCapability, Bind
  <2>2. k = n /\ m = b
    BY <2>1 DEF SaveBoundary, TypeOK
  <2>3. b \in Modules
    BY <2>2, LinkerAssumption
  <2>4. boundaries' = [boundaries EXCEPT ![n] = b] /\ boundaries \in [BoundaryNames -> Modules \cup {None}]
    BY <2>1, <2>2 DEF SaveBoundary, TypeOK
  <2>5. Fences' = Fences \cup {b}
    BY <2>4 DEF Fences, ModulesOf
  <2>6. QED BY <2>1, <2>3, <2>5 DEF SaveBoundary
<1>2. ASSUME NEW q \in AllRoles
      PROVE  \E p \in AllRoles :
               /\ PolicyFor(q, a) = Link(Fences, Pack(p, a))
               /\ PolicyFor(q, a)' = Link(Fences \cup {b}, Pack(p, a))
               /\ Linkable(Fences, Pack(p, a)) /\ Linkable(Fences \cup {b}, Pack(p, a))
  <2>1. ASSUME NEW p PROVE Defined(p)' = Defined(p) /\ Pack(p, a)' = Pack(p, a)
    BY <1>1 DEF Defined, Pack, Imported
  <2>2. DefaultRole \in AllRoles /\ Defined(DefaultRole)
    BY DEF Defined, AllRoles
  <2>3. PICK p \in AllRoles : Defined(p) /\ p = IF Defined(q) THEN q ELSE DefaultRole
    BY <2>2
  <2>4. PolicyFor(q, a) = Link(Fences, Pack(p, a))
    BY <2>3 DEF PolicyFor
  <2>5. PolicyFor(q, a)' = Link(Fences \cup {b}, Pack(p, a))
    BY <1>1, <2>1, <2>3 DEF PolicyFor
  <2>6. Linkable(Fences, Pack(p, a))
    BY <2>3 DEF Resolves
  <2>7. Linkable(Fences', Pack(p, a)')
    BY <2>1, <2>3 DEF Resolves
  <2>8. QED BY <1>1, <2>1, <2>4, <2>5, <2>6, <2>7
<1> HIDE DEF b
<1>3. Rank(Verdict(PolicyFor(r, a)', t, call)) <= Rank(Verdict(PolicyFor(r, a), t, call))
  <2>1. PICK p \in AllRoles :
          /\ PolicyFor(r, a) = Link(Fences, Pack(p, a))
          /\ PolicyFor(r, a)' = Link(Fences \cup {b}, Pack(p, a))
          /\ Linkable(Fences, Pack(p, a)) /\ Linkable(Fences \cup {b}, Pack(p, a))
    BY <1>2
  <2>2. Rank(Verdict(Link(Fences \cup {b}, Pack(p, a)), t, call))
          <= Rank(Verdict(Link(Fences, Pack(p, a)), t, call))
    BY <1>1, <2>1, LayersTyped, AddedBoundaryNarrows
  <2>3. QED BY <2>1, <2>2
<1>4. Engaged(a) => Engaged(a)'
  <2>1. SUFFICES ASSUME NEW q \in AllRoles, NEW k \in Reserved, Defined(q),
                        PolicyFor(q, a).tools[k] # None
                 PROVE  Defined(q)' /\ PolicyFor(q, a)'.tools[k] # None
    BY DEF Engaged
  <2>2. PICK p \in AllRoles :
          /\ PolicyFor(q, a) = Link(Fences, Pack(p, a))
          /\ PolicyFor(q, a)' = Link(Fences \cup {b}, Pack(p, a))
    BY <1>2
  <2>3. ASSUME NEW bs, NEW cs PROVE Link(bs, cs).tools[k] = FoldTool(bs, cs, k)
    BY LinkerAssumption DEF Link
  <2>4. FoldTool(Fences, Pack(p, a), k) # None
    BY <2>1, <2>2, <2>3
  <2>5. FoldTool(Fences \cup {b}, Pack(p, a), k) # None
    BY <1>1, <2>4, LayersTyped, KeyIsKept
  <2>6. Defined(q)'
    BY <1>1, <2>1 DEF Defined
  <2>7. QED BY <2>2, <2>3, <2>5, <2>6
<1>5. Verdict(PolicyFor(r, a)', t, call) = Verdict(PolicyFor(r, a), t, call)'
  BY DEF Verdict, Case
<1>6. CASE t \in Reserved /\ ~Engaged(a)
  <2>1. Rank(Outcome(r, a, t, call)) = 2
    BY <1>6 DEF Outcome, Rank
  <2>2. Outcome(r, a, t, call)' \in Grants \cup {"deny"}
    BY DEF Outcome, Verdict, Grants
  <2>3. ASSUME NEW o \in Grants \cup {"deny"} PROVE Rank(o) <= 2
    BY DEF Rank, Grants
  <2>4. Rank(Outcome(r, a, t, call)') <= 2
    BY <2>2, <2>3
  <2>5. QED BY <2>1, <2>4
<1>7. CASE ~(t \in Reserved /\ ~Engaged(a))
  <2>1. Outcome(r, a, t, call) = Verdict(PolicyFor(r, a), t, call)
    BY <1>7 DEF Outcome
  <2>2. Outcome(r, a, t, call)' = Verdict(PolicyFor(r, a), t, call)'
    BY <1>4, <1>7 DEF Outcome
  <2>3. QED BY <1>3, <1>5, <2>1, <2>2 DEF Rank
<1>8. QED BY <1>6, <1>7

\* Whoever saves whatever in whatever order, a boundary that is added lets no call,
\* run, handoff or skill of anybody get further, and switches no gate off
\* (linker.py:383-388).
THEOREM AddedFencesNarrow == Spec => BoundaryOnlyNarrows
<1>1. TypeOK /\ [Next]_vars => [Narrows]_vars
  BY StepNarrows
<1>2. QED BY <1>1, ProjectTyped, PTL DEF Spec, BoundaryOnlyNarrows, Narrows

-----------------------------------------------------------------------------
(* The stored policy and its bundles.  A store is what a request restores:    *)
(* modules, bindings, entry file and other file.                              *)

Texts(S) == S \cup {None}

Stores == [Caps -> Texts(Store!ModuleTexts)] \X ((SUBSET Caps) \cup {None})
          \X Texts(Store!EntryTexts) \X BOOLEAN

\* Both sources resolve, the one that is not in force as well.
Sound(s) == /\ s[2] # None => Store!ModulesResolve(s[2], s[1])
            /\ s[3] # None => Store!FilesResolve(s[3], s[4])

IsModular(s) == Store!Modular(s[2], s[3])

\* What an agent is compiled from in a store.
SourceIn(s, text) ==
  IF s[3] # None THEN Store!FromFiles(s[3], s[4])
  ELSE IF s[2] # None THEN Store!FromModules(s[2], s[1])
  ELSE Store!FromOwn(text)

\* The bundles are those of a store; none is of an agent's own text in a modular one.
Current(s, o, b) ==
  \A a \in StoredAgents : o[a] # None => b[a] \in {None, SourceIn(s, o[a])}
Modular(s, o, b) ==
  IsModular(s) => \A a \in StoredAgents : o[a] # None /\ b[a] # None => b[a].from # "own"

Pending == {"recompile", "build", "undo"}

Shape(r) == r = [pc |-> r.pc, flip |-> r.flip, undo |-> r.undo, plan |-> r.plan,
                 agent |-> r.agent, text |-> r.text]

Plan(s, o) == [a \in {a \in StoredAgents : o[a] # None} |-> SourceIn(s, o[a])]

\* A request that makes a project modular could take it back.
Fine(r, s, o, b, late, torn_) ==
  /\ Shape(r)
  /\ r.pc \in Pending \cup {"idle", "save"} /\ r.flip \in BOOLEAN
  /\ r.flip => /\ r.pc \in Pending /\ r.undo \in Stores /\ Sound(r.undo)
               /\ late \/ Current(r.undo, o, b)
               /\ torn_ \/ Modular(r.undo, o, b)
  /\ r.pc = "undo" => r.flip
  /\ r.pc = "build" => r.plan = Plan(s, o)
  /\ r.pc = "save" => r.agent \in StoredAgents /\ r.text \in Store!OwnTexts

\* What holds between requests, and while one that rebuilds nothing goes on.
Settled(r, s, o, b, late, torn_) ==
  /\ r.pc \in Pending \/ late \/ Current(s, o, b)
  /\ r.flip \/ torn_ \/ Modular(s, o, b)

Now == <<module, bindings, entry, fragment>>

OneHolder ==
  /\ \A p, q \in Requests : req[p].pc # "idle" /\ req[q].pc # "idle" => p = q
  /\ ~up => \A p \in Requests : req[p].pc = "idle"

StoreTyped ==
  /\ Now \in Stores /\ own \in [StoredAgents -> Texts(Store!OwnTexts)]
  /\ bundle = [a \in StoredAgents |-> bundle[a]]
  /\ {up, behind, torn} \subseteq BOOLEAN
  /\ req = [p \in Requests |-> req[p]]

StoreInv ==
  /\ StoreTyped /\ Sound(Now) /\ OneHolder
  /\ \A p \in Requests : Fine(req[p], Now, own, bundle, behind, torn)
  /\ (\A p \in Requests : req[p].pc \notin Pending) => behind \/ Current(Now, own, bundle)
  /\ (\A p \in Requests : ~req[p].flip) => torn \/ Modular(Now, own, bundle)

LEMMA SourceIs ==
  /\ \A a : Store!Source(a) = SourceIn(Now, own[a])
  /\ \A s, text : IsModular(s) => SourceIn(s, text).from # "own"
  /\ \A s, text, other : IsModular(s) => SourceIn(s, text) = SourceIn(s, other)
  /\ \A s, text : ~IsModular(s) => SourceIn(s, text) = Store!FromOwn(text)
BY DEF Store!Source, SourceIn, Now, IsModular, Store!Modular, Store!FromFiles, Store!FromModules,
       Store!FromOwn

LEMMA FreeIs ==
  ASSUME StoreInv, Store!LockFree
  PROVE  /\ up /\ \A p \in Requests : req[p].pc = "idle" /\ ~req[p].flip
         /\ behind \/ Current(Now, own, bundle)
         /\ torn \/ Modular(Now, own, bundle)
<1>1. up /\ \A p \in Requests : req[p].pc = "idle" BY DEF Store!LockFree
<1>2. \A p \in Requests : req[p].pc \notin Pending /\ ~req[p].flip
  BY <1>1 DEF StoreInv, Fine, Pending
<1>3. QED BY <1>1, <1>2 DEF StoreInv

\* One request goes on, and the others wait.
LEMMA StoreStep ==
  ASSUME StoreInv, NEW p \in Requests, \A q \in Requests : q # p => req[q].pc = "idle",
         up, UNCHANGED up,
         NEW r, req' = [req EXCEPT ![p] = r], NEW s \in Stores, Now' = s, Sound(s),
         NEW o \in [StoredAgents -> Texts(Store!OwnTexts)], own' = o,
         NEW b, bundle' = b, b = [a \in StoredAgents |-> b[a]],
         NEW l \in BOOLEAN, behind' = l, NEW t \in BOOLEAN, torn' = t,
         Fine(r, s, o, b, l, t), Settled(r, s, o, b, l, t)
  PROVE  StoreInv'
<1>1. \A q \in Requests : req'[q] = IF q = p THEN r ELSE req[q] BY DEF StoreInv, StoreTyped
<1>2. StoreTyped' BY <1>1 DEF StoreInv, StoreTyped
<1>3. OneHolder' BY <1>1 DEF OneHolder
<1>4. \A q \in Requests : Fine(req'[q], s, o, b, l, t)
  <2>1. ASSUME NEW q \in Requests, q # p PROVE Fine(req[q], s, o, b, l, t)
    <3>1. req[q].pc = "idle" /\ Fine(req[q], Now, own, bundle, behind, torn) BY <2>1 DEF StoreInv
    <3>2. ~req[q].flip BY <3>1 DEF Fine, Pending
    <3>3. QED BY <3>1, <3>2 DEF Fine
  <2>2. QED BY <1>1, <2>1
<1>5. (\A q \in Requests : req'[q].pc \notin Pending) => l \/ Current(s, o, b)
  BY <1>1 DEF Settled
<1>6. (\A q \in Requests : ~req'[q].flip) => t \/ Modular(s, o, b)
  BY <1>1 DEF Settled
<1>7. QED BY <1>2, <1>3, <1>4, <1>5, <1>6 DEF StoreInv

LEMMA IdleFine ==
  ASSUME NEW s, NEW o, NEW b, NEW l, NEW t
  PROVE  Fine(Store!Idle, s, o, b, l, t) /\ Store!Idle.pc = "idle" /\ ~Store!Idle.flip
BY DEF Fine, Shape, Store!Idle, Pending

\* A write of the store that is followed by a rebuild: one that makes a project
\* modular knows what to restore.
LEMMA RebuildKeeps ==
  ASSUME StoreInv, NEW p \in Requests, Store!LockFree, NEW flip \in BOOLEAN, NEW undo,
         Store!Rebuild(p, flip, undo), UNCHANGED <<own, bundle, up, behind, torn>>,
         NEW s \in Stores, Now' = s, Sound(s),
         flip => undo = Now, ~flip => (IsModular(s) => IsModular(Now))
  PROVE  StoreInv'
<1>1. PICK z : z = Store!Idle OBVIOUS
<1>2. PICK r : r = [z EXCEPT !.pc = "recompile", !.flip = flip, !.undo = undo] OBVIOUS
<1>3. Shape(r) /\ r.pc = "recompile" /\ r.flip = flip /\ r.undo = undo
  BY <1>1, <1>2 DEF Store!Idle, Shape
<1>4. req' = [req EXCEPT ![p] = r] BY <1>1, <1>2 DEF Store!Rebuild, Store!To
<1>5. /\ up /\ \A q \in Requests : req[q].pc = "idle"
      /\ behind \/ Current(Now, own, bundle)
      /\ torn \/ Modular(Now, own, bundle)
  BY FreeIs
<1>6. Now \in Stores /\ Sound(Now) BY DEF StoreInv, StoreTyped
<1>7. Fine(r, s, own, bundle, behind, torn) BY <1>3, <1>5, <1>6 DEF Fine, Pending
<1>8. Settled(r, s, own, bundle, behind, torn)
  <2>1. flip \/ torn \/ Modular(s, own, bundle) BY <1>5 DEF Modular
  <2>2. QED BY <1>3, <2>1 DEF Settled, Pending
<1>9. QED BY <1>4, <1>5, <1>7, <1>8, StoreStep DEF StoreInv, StoreTyped

\* A write that changes nothing that is compiled.
LEMMA ApartKeeps ==
  ASSUME StoreInv, NEW p \in Requests, Store!LockFree,
         UNCHANGED <<req, own, bundle, up, behind, torn>>,
         NEW s \in Stores, Now' = s, Sound(s),
         \A text : SourceIn(s, text) = SourceIn(Now, text), IsModular(s) => IsModular(Now)
  PROVE  StoreInv'
<1>1. /\ up /\ \A q \in Requests : req[q].pc = "idle" /\ ~req[q].flip
      /\ behind \/ Current(Now, own, bundle)
      /\ torn \/ Modular(Now, own, bundle)
  BY FreeIs
<1>2. PICK r : r = req[p] OBVIOUS
<1>3. req' = [req EXCEPT ![p] = r] BY <1>2 DEF StoreInv, StoreTyped
<1>4. Fine(r, Now, own, bundle, behind, torn) /\ r.pc = "idle" /\ ~r.flip
  BY <1>1, <1>2 DEF StoreInv
<1>5. Fine(r, s, own, bundle, behind, torn) BY <1>4 DEF Fine
<1>6. Settled(r, s, own, bundle, behind, torn) BY <1>1 DEF Settled, Current, Modular
<1>7. QED BY <1>1, <1>3, <1>5, <1>6, StoreStep DEF StoreInv, StoreTyped

LEMMA StoreIs ==
  ASSUME StoreInv
  PROVE  /\ module \in [Caps -> Texts(Store!ModuleTexts)]
         /\ bindings \in (SUBSET Caps) \cup {None} /\ entry \in Texts(Store!EntryTexts)
         /\ fragment \in BOOLEAN
         /\ bindings # None => Store!ModulesResolve(bindings, module)
         /\ entry # None => Store!FilesResolve(entry, fragment)
BY DEF StoreInv, StoreTyped, Stores, Now, Sound

\* Modules that change are written, and rebuilt when they are in force.
LEMMA ModulesKeep ==
  ASSUME StoreInv, NEW p \in Requests, NEW c \in Caps, NEW text \in Texts(Store!ModuleTexts),
         Store!Asks(p), module' = [module EXCEPT ![c] = text],
         bindings # None => Store!ModulesResolve(bindings, module'),
         \/ Store!Rebuild(p, FALSE, <<>>)
         \/ UNCHANGED req /\ (text = module[c] \/ ~Store!Modular(bindings, entry)),
         UNCHANGED <<bindings, entry, fragment, own, bundle, up, behind, torn>>
  PROVE  StoreInv'
<1>1. PICK m : m = module' OBVIOUS
<1>2. m \in [Caps -> Texts(Store!ModuleTexts)] BY <1>1, StoreIs
<1>3. PICK s : s = <<m, bindings, entry, fragment>> OBVIOUS
<1>4. s \in Stores /\ Now' = s BY <1>1, <1>2, <1>3, StoreIs DEF Stores, Now
<1>5. Sound(s) BY <1>1, <1>3, StoreIs DEF Sound
<1>6. IsModular(s) <=> IsModular(Now) BY <1>3 DEF IsModular, Now
<1>7. Store!LockFree BY DEF Store!Asks
<1>8. CASE Store!Rebuild(p, FALSE, <<>>)
  BY <1>4, <1>5, <1>6, <1>7, <1>8, RebuildKeeps
<1>9. CASE UNCHANGED req /\ text = module[c]
  <2>1. m = module BY <1>1, <1>9, StoreIs
  <2>2. s = Now BY <1>3, <2>1 DEF Now
  <2>3. QED BY <1>4, <1>5, <1>6, <1>7, <1>9, <2>2, ApartKeeps
<1>10. CASE UNCHANGED req /\ ~Store!Modular(bindings, entry)
  <2>1. ~IsModular(Now) BY <1>10 DEF IsModular, Now
  <2>2. \A x : SourceIn(s, x) = SourceIn(Now, x) BY <1>6, <2>1, SourceIs
  <2>3. QED BY <1>4, <1>5, <1>6, <1>7, <1>10, <2>2, ApartKeeps
<1>11. QED BY <1>8, <1>9, <1>10

LEMMA WritesKeep ==
  ASSUME Store!StoreAssumption, StoreInv, NEW p \in Requests,
         \/ \E c \in Caps : Store!DeleteModule(p, c) \/ \E x \in Store!ModuleTexts : Store!PutModule(p, c, x)
         \/ \E new \in (SUBSET Caps) \cup {None} : Store!SetRoles(p, new)
         \/ \E x \in Store!EntryTexts : Store!PutEntry(p, x)
         \/ Store!PutFragment(p) \/ Store!DeleteFragment(p) \/ Store!DeleteEntry(p)
  PROVE  StoreInv'
<1>1. ASSUME NEW c \in Caps, Store!DeleteModule(p, c) PROVE StoreInv'
  <2>1. bindings # None => Store!ModulesResolve(bindings, module')
    BY <1>1, StoreIs DEF Store!DeleteModule, Store!ModulesResolve
  <2>2. QED BY <1>1, <2>1, ModulesKeep DEF Store!DeleteModule, Texts
<1>2. ASSUME NEW c \in Caps, NEW x \in Store!ModuleTexts, Store!PutModule(p, c, x) PROVE StoreInv'
  <2>1. bindings # None => Store!ModulesResolve(bindings, module')
    BY <1>2 DEF Store!PutModule, Store!Modular
  <2>2. QED BY <1>2, <2>1, ModulesKeep DEF Store!PutModule, Texts
<1>3. ASSUME NEW new \in (SUBSET Caps) \cup {None}, Store!SetRoles(p, new) PROVE StoreInv'
  <2>1. PICK s : s = <<module, new, entry, fragment>> OBVIOUS
  <2>2. s \in Stores /\ Now' = s BY <1>3, <2>1, StoreIs DEF Store!SetRoles, Stores, Now
  <2>3. Sound(s) BY <1>3, <2>1, StoreIs DEF Store!SetRoles, Sound
  <2>4. ~(new # None /\ bindings = None) => (IsModular(s) => IsModular(Now))
    BY <2>1 DEF IsModular, Now, Store!Modular
  <2>5. Store!LockFree /\ Store!Rebuild(p, new # None /\ bindings = None, Now)
        /\ UNCHANGED <<own, bundle, up, behind, torn>>
    BY <1>3 DEF Store!SetRoles, Store!Asks, Store!store, Now
  <2>6. QED BY <2>2, <2>3, <2>4, <2>5, RebuildKeeps
<1>4. ASSUME NEW x \in Store!EntryTexts, Store!PutEntry(p, x) PROVE StoreInv'
  <2>1. PICK s : s = <<module, bindings, x, fragment>> OBVIOUS
  <2>2. s \in Stores /\ Now' = s BY <1>4, <2>1, StoreIs DEF Store!PutEntry, Stores, Now, Texts
  <2>3. Sound(s) BY <1>4, <2>1, StoreIs DEF Store!PutEntry, Sound
  <2>4. Store!Modular(bindings, entry) => IsModular(Now) BY DEF IsModular, Now
  <2>5. Store!LockFree /\ Store!Rebuild(p, ~Store!Modular(bindings, entry), Now)
        /\ UNCHANGED <<own, bundle, up, behind, torn>>
    BY <1>4 DEF Store!PutEntry, Store!Asks, Store!store, Now
  <2>6. (~Store!Modular(bindings, entry)) \in BOOLEAN BY DEF Store!Modular
  <2>7. QED BY <2>2, <2>3, <2>4, <2>5, <2>6, RebuildKeeps
<1>5. ASSUME NEW e \in Texts(Store!EntryTexts), NEW f \in BOOLEAN, Store!Asks(p),
             Store!Rebuild(p, FALSE, <<>>), entry' = e, fragment' = f,
             e = entry \/ e = None, e # None => Store!FilesResolve(e, f),
             UNCHANGED <<module, bindings, own, bundle, up, behind, torn>>
      PROVE  StoreInv'
  <2>1. PICK s : s = <<module, bindings, e, f>> OBVIOUS
  <2>2. s \in Stores /\ Now' = s BY <1>5, <2>1, StoreIs DEF Stores, Now
  <2>3. Sound(s) BY <1>5, <2>1, StoreIs DEF Sound
  <2>4. IsModular(s) => IsModular(Now) BY <1>5, <2>1 DEF IsModular, Now, Store!Modular
  <2>5. QED BY <1>5, <2>2, <2>3, <2>4, RebuildKeeps DEF Store!Asks
<1>6. CASE Store!PutFragment(p)
  BY <1>5, <1>6, StoreIs DEF Store!PutFragment, Store!FilesResolve
<1>7. CASE Store!DeleteFragment(p)
  BY <1>5, <1>7, StoreIs DEF Store!DeleteFragment
<1>8. CASE Store!DeleteEntry(p)
  BY <1>5, <1>8, StoreIs DEF Store!DeleteEntry, Texts
<1>9. QED BY <1>1, <1>2, <1>3, <1>4, <1>6, <1>7, <1>8

LEMMA HolderIs ==
  ASSUME StoreInv, NEW p \in Requests, req[p].pc # "idle"
  PROVE  /\ up /\ \A q \in Requests : q # p => req[q].pc = "idle"
         /\ Fine(req[p], Now, own, bundle, behind, torn)
         /\ Settled(req[p], Now, own, bundle, behind, torn)
         /\ Now \in Stores /\ Sound(Now)
<1>1. up /\ \A q \in Requests : q # p => req[q].pc = "idle" BY DEF StoreInv, OneHolder
<1>2. \A q \in Requests : q # p => req[q].pc \notin Pending /\ ~req[q].flip
  BY <1>1 DEF StoreInv, Fine, Pending
<1>3. QED BY <1>1, <1>2 DEF StoreInv, StoreTyped, Settled

\* The bundle of a modular store's source is one of its.
LEMMA ModularSource ==
  ASSUME NEW s, NEW o, NEW b, \A a \in StoredAgents : o[a] # None => b[a] \in {None, SourceIn(s, o[a])}
  PROVE  Modular(s, o, b)
BY SourceIs DEF Modular

LEMMA ResolveKeeps ==
  ASSUME StoreInv, NEW p \in Requests, Store!ResolveAgents(p)
  PROVE  StoreInv'
<1>1. PICK z : z = req[p] OBVIOUS
<1>2. z.pc = "recompile" BY <1>1 DEF Store!ResolveAgents
<1>3. /\ up /\ \A q \in Requests : q # p => req[q].pc = "idle"
      /\ Fine(z, Now, own, bundle, behind, torn) /\ Settled(z, Now, own, bundle, behind, torn)
      /\ Now \in Stores /\ Sound(Now)
  BY <1>1, <1>2, HolderIs
<1>4. PICK plan : plan = [a \in Store!Registered |-> Store!Source(a)] OBVIOUS
<1>5. plan = Plan(Now, own) BY <1>4, SourceIs DEF Plan, Store!Registered
<1>6. PICK r : r = [z EXCEPT !.pc = "build", !.plan = plan] OBVIOUS
<1>7. Shape(z) BY <1>3 DEF Fine
<1>8. Shape(r) /\ r.pc = "build" /\ r.plan = plan /\ r.flip = z.flip /\ r.undo = z.undo
  BY <1>6, <1>7 DEF Shape
<1>9. req' = [req EXCEPT ![p] = r] BY <1>1, <1>4, <1>6 DEF Store!ResolveAgents, Store!To
<1>10. Fine(r, Now, own, bundle, behind, torn) BY <1>3, <1>5, <1>8 DEF Fine, Pending
<1>11. Settled(r, Now, own, bundle, behind, torn) BY <1>2, <1>3, <1>8 DEF Settled, Pending
<1>12. UNCHANGED <<up, own, bundle, behind, torn>> /\ Now' = Now
  BY DEF Store!ResolveAgents, Now
<1>13. QED BY <1>3, <1>9, <1>10, <1>11, <1>12, StoreStep DEF StoreInv, StoreTyped

\* What is built is the plan, which is of the store that is there.
LEMMA BuiltKeeps ==
  ASSUME StoreInv, NEW p \in Requests, Store!Built(p)
  PROVE  StoreInv'
<1>1. PICK z : z = req[p] OBVIOUS
<1>2. z.pc = "build" BY <1>1 DEF Store!Built
<1>3. /\ up /\ \A q \in Requests : q # p => req[q].pc = "idle"
      /\ Fine(z, Now, own, bundle, behind, torn) /\ Settled(z, Now, own, bundle, behind, torn)
      /\ Now \in Stores /\ Sound(Now)
  BY <1>1, <1>2, HolderIs
<1>4. PICK plan : plan = z.plan OBVIOUS
<1>5. plan = Plan(Now, own) BY <1>2, <1>3, <1>4 DEF Fine
<1>6. PICK failed \in SUBSET DOMAIN plan :
        bundle' = [a \in StoredAgents |-> IF a \in failed THEN None
                     ELSE IF a \in DOMAIN plan THEN plan[a] ELSE bundle[a]]
  BY <1>1, <1>4 DEF Store!Built
<1>7. PICK b : b = bundle' OBVIOUS
<1>8. b = [a \in StoredAgents |-> b[a]] BY <1>6, <1>7
<1>9. \A a \in StoredAgents : own[a] # None => b[a] \in {None, SourceIn(Now, own[a])}
  BY <1>5, <1>6, <1>7 DEF Plan
<1>10. Current(Now, own, b) /\ Modular(Now, own, b) BY <1>9, ModularSource DEF Current
<1>11. PICK t : t = torn' OBVIOUS
<1>12. t \in BOOLEAN BY <1>11 DEF Store!Built, StoreInv, StoreTyped
<1>13. PICK r : r = Store!Idle OBVIOUS
<1>14. Fine(r, Now, own, b, FALSE, t) /\ Settled(r, Now, own, b, FALSE, t)
  BY <1>10, <1>13, IdleFine DEF Settled
<1>15. /\ req' = [req EXCEPT ![p] = r] /\ behind' = FALSE /\ UNCHANGED <<up, own>> /\ Now' = Now
  BY <1>13 DEF Store!Built, Store!To, Now
<1>16. own \in [StoredAgents -> Texts(Store!OwnTexts)] BY DEF StoreInv, StoreTyped
<1>17. QED BY <1>3, <1>7, <1>8, <1>11, <1>12, <1>14, <1>15, <1>16, StoreStep

LEMMA BuildFailsKeeps ==
  ASSUME StoreInv, NEW p \in Requests, Store!BuildFails(p)
  PROVE  StoreInv'
<1>1. PICK z : z = req[p] OBVIOUS
<1>2. z.pc = "build" BY <1>1 DEF Store!BuildFails
<1>3. /\ up /\ \A q \in Requests : q # p => req[q].pc = "idle"
      /\ Fine(z, Now, own, bundle, behind, torn) /\ Settled(z, Now, own, bundle, behind, torn)
      /\ Now \in Stores /\ Sound(Now)
  BY <1>1, <1>2, HolderIs
<1>4. UNCHANGED <<up, own, bundle, torn>> /\ Now' = Now BY DEF Store!BuildFails, Now
<1>5. CASE z.flip
  <2>1. PICK r : r = [z EXCEPT !.pc = "undo"] OBVIOUS
  <2>2. Shape(z) BY <1>3 DEF Fine
  <2>3. Shape(r) /\ r.pc = "undo" /\ r.flip = z.flip /\ r.undo = z.undo
    BY <2>1, <2>2 DEF Shape
  <2>4. req' = [req EXCEPT ![p] = r] /\ UNCHANGED behind
    BY <1>1, <1>5, <2>1 DEF Store!BuildFails, Store!To
  <2>5. Fine(r, Now, own, bundle, behind, torn) BY <1>3, <1>5, <2>3 DEF Fine, Pending
  <2>6. Settled(r, Now, own, bundle, behind, torn) BY <1>5, <2>3 DEF Settled, Pending
  <2>7. QED BY <1>3, <1>4, <2>4, <2>5, <2>6, StoreStep DEF StoreInv, StoreTyped
<1>6. CASE ~z.flip
  <2>1. PICK r : r = Store!Idle OBVIOUS
  <2>2. req' = [req EXCEPT ![p] = r] /\ behind' = TRUE
    BY <1>1, <1>6, <2>1 DEF Store!BuildFails, Store!To
  <2>3. Fine(r, Now, own, bundle, TRUE, torn) BY <2>1, IdleFine
  <2>4. Settled(r, Now, own, bundle, TRUE, torn) BY <1>3, <1>6 DEF Settled
  <2>5. QED BY <1>3, <1>4, <2>2, <2>3, <2>4, StoreStep DEF StoreInv, StoreTyped
<1>7. QED BY <1>5, <1>6

LEMMA UndoKeeps ==
  ASSUME StoreInv, NEW p \in Requests, Store!UndoFlip(p)
  PROVE  StoreInv'
<1>1. PICK z : z = req[p] OBVIOUS
<1>2. z.pc = "undo" BY <1>1 DEF Store!UndoFlip
<1>3. /\ up /\ \A q \in Requests : q # p => req[q].pc = "idle"
      /\ Fine(z, Now, own, bundle, behind, torn)
  BY <1>1, <1>2, HolderIs
<1>4. PICK s : s = z.undo OBVIOUS
<1>5. /\ s \in Stores /\ Sound(s)
      /\ behind \/ Current(s, own, bundle)
      /\ torn \/ Modular(s, own, bundle)
  BY <1>2, <1>3, <1>4 DEF Fine
<1>6. s = <<s[1], s[2], s[3], s[4]>> BY <1>5 DEF Stores
<1>7. Now' = s BY <1>1, <1>4, <1>6 DEF Store!UndoFlip, Now
<1>8. PICK r : r = Store!Idle OBVIOUS
<1>9. req' = [req EXCEPT ![p] = r] /\ UNCHANGED <<up, own, bundle, behind, torn>>
  BY <1>8 DEF Store!UndoFlip, Store!To
<1>10. Fine(r, s, own, bundle, behind, torn) BY <1>8, IdleFine
<1>11. Settled(r, s, own, bundle, behind, torn) BY <1>5 DEF Settled
<1>12. QED BY <1>3, <1>5, <1>7, <1>9, <1>10, <1>11, StoreStep DEF StoreInv, StoreTyped

\* A modular agent's text is stored and compiled by nobody; a classic agent's, or
\* a new agent's, waits for its commit.
LEMMA PutAgentKeeps ==
  ASSUME StoreInv, Store!StoreAssumption, NEW p \in Requests, NEW a \in StoredAgents, NEW x \in Store!OwnTexts,
         Store!PutAgent(p, a, x) \/ Store!Register(p, a)
  PROVE  StoreInv'
<1>1. /\ up /\ \A q \in Requests : req[q].pc = "idle"
      /\ behind \/ Current(Now, own, bundle)
      /\ torn \/ Modular(Now, own, bundle)
  BY FreeIs DEF Store!PutAgent, Store!Register, Store!Asks
<1>2. Now \in Stores /\ Sound(Now) BY DEF StoreInv, StoreTyped
<1>3. UNCHANGED <<bundle, up, behind, torn>> /\ Now' = Now
  BY DEF Store!PutAgent, Store!Register, Now
<1>4. CASE Store!PutAgent(p, a, x) /\ IsModular(Now)
  <2>1. PICK o : o = [own EXCEPT ![a] = x] OBVIOUS
  <2>2. own' = o /\ UNCHANGED req /\ own[a] # None
    BY <1>4, <2>1 DEF Store!PutAgent, Store!Registered, IsModular, Now
  <2>3. o \in [StoredAgents -> Texts(Store!OwnTexts)] /\ \A d \in StoredAgents : o[d] # None => own[d] # None
    BY <2>1, <2>2 DEF StoreInv, StoreTyped, Texts
  <2>4. behind \/ Current(Now, o, bundle)
    <3>1. ASSUME NEW d \in StoredAgents PROVE SourceIn(Now, o[d]) = SourceIn(Now, own[d])
      BY <1>4, SourceIs
    <3>2. QED BY <1>1, <2>3, <3>1 DEF Current
  <2>5. torn \/ Modular(Now, o, bundle) BY <1>1, <2>3 DEF Modular
  <2>6. PICK r : r = req[p] OBVIOUS
  <2>7. Fine(r, Now, own, bundle, behind, torn) /\ r.pc = "idle" BY <1>1, <2>6 DEF StoreInv
  <2>8. Fine(r, Now, o, bundle, behind, torn) BY <2>7 DEF Fine, Pending
  <2>9. Settled(r, Now, o, bundle, behind, torn) BY <2>4, <2>5 DEF Settled
  <2>10. req' = [req EXCEPT ![p] = r] BY <2>2, <2>6 DEF StoreInv, StoreTyped
  <2>11. QED BY <1>1, <1>2, <1>3, <2>2, <2>3, <2>8, <2>9, <2>10, StoreStep DEF StoreInv, StoreTyped
<1>5. CASE ~(Store!PutAgent(p, a, x) /\ IsModular(Now))
  <2>1. PICK y \in Store!OwnTexts : y = IF Store!PutAgent(p, a, x) THEN x
                     ELSE IF Store!Modular(bindings, entry) THEN "denyAll" ELSE "own"
    BY DEF Store!OwnTexts
  <2>2. PICK i : i = Store!Idle OBVIOUS
  <2>3. PICK r : r = [i EXCEPT !.pc = "save", !.agent = a, !.text = y] OBVIOUS
  <2>4. Shape(r) /\ r.pc = "save" /\ r.agent = a /\ r.text = y /\ r.flip = FALSE
    BY <2>2, <2>3 DEF Store!Idle, Shape
  <2>5. own' = own /\ req' = [req EXCEPT ![p] = r]
    <3>1. CASE Store!PutAgent(p, a, x)
      <4>1. ~Store!Modular(bindings, entry) BY <1>5, <3>1 DEF IsModular, Now
      <4>2. y = x BY <2>1, <3>1
      <4>3. QED BY <2>2, <2>3, <3>1, <4>1, <4>2 DEF Store!PutAgent, Store!To
    <3>2. CASE ~Store!PutAgent(p, a, x)
      <4>1. y = IF Store!Modular(bindings, entry) THEN "denyAll" ELSE "own" BY <2>1, <3>2
      <4>2. QED BY <2>2, <2>3, <3>2, <4>1 DEF Store!Register, Store!To
    <3>3. QED BY <3>1, <3>2
  <2>6. Fine(r, Now, own, bundle, behind, torn) BY <2>4 DEF Fine, Pending
  <2>7. Settled(r, Now, own, bundle, behind, torn) BY <1>1 DEF Settled
  <2>8. QED BY <1>1, <1>2, <1>3, <2>5, <2>6, <2>7, StoreStep DEF StoreInv, StoreTyped
<1>6. QED BY <1>4, <1>5

LEMMA SaveKeeps ==
  ASSUME StoreInv, NEW p \in Requests, Store!Save(p)
  PROVE  StoreInv'
<1>1. PICK z : z = req[p] OBVIOUS
<1>2. z.pc = "save" BY <1>1 DEF Store!Save
<1>3. /\ up /\ \A q \in Requests : q # p => req[q].pc = "idle"
      /\ Fine(z, Now, own, bundle, behind, torn) /\ Settled(z, Now, own, bundle, behind, torn)
      /\ Now \in Stores /\ Sound(Now)
  BY <1>1, <1>2, HolderIs
<1>4. PICK a \in StoredAgents : a = z.agent BY <1>2, <1>3 DEF Fine
<1>5. z.text \in Store!OwnTexts /\ ~z.flip BY <1>2, <1>3 DEF Fine, Pending
<1>6. PICK o : o = [own EXCEPT ![a] = z.text] OBVIOUS
<1>7. own \in [StoredAgents -> Texts(Store!OwnTexts)] BY DEF StoreInv, StoreTyped
<1>8. o \in [StoredAgents -> Texts(Store!OwnTexts)] /\ o[a] = z.text
      /\ \A d \in StoredAgents : d # a => o[d] = own[d]
  BY <1>5, <1>6, <1>7 DEF Texts
<1>9. PICK v : /\ v \in {None, SourceIn(Now, o[a])}
               /\ bundle' = [bundle EXCEPT ![a] = v]
  <2>1. PICK built \in BOOLEAN :
          bundle' = [bundle EXCEPT ![a] = IF ~built THEN None
            ELSE IF Store!Modular(bindings, entry) THEN Store!Source(a) ELSE Store!FromOwn(z.text)]
    BY <1>1, <1>4 DEF Store!Save
  <2>2. Store!Modular(bindings, entry) <=> IsModular(Now) BY DEF IsModular, Now
  <2>3. IsModular(Now) => Store!Source(a) = SourceIn(Now, o[a]) BY SourceIs
  <2>4. ~IsModular(Now) => Store!FromOwn(z.text) = SourceIn(Now, o[a]) BY <1>8, SourceIs
  <2>5. QED BY <2>1, <2>2, <2>3, <2>4
<1>10. PICK b : b = [bundle EXCEPT ![a] = v] OBVIOUS
<1>11. /\ b = [d \in StoredAgents |-> b[d]] /\ b[a] = v
       /\ \A d \in StoredAgents : d # a => b[d] = bundle[d]
  BY <1>10 DEF StoreInv, StoreTyped
<1>12. behind \/ Current(Now, o, b)
  <2>1. behind \/ Current(Now, own, bundle) BY <1>2, <1>3 DEF Settled, Pending
  <2>2. QED BY <1>8, <1>9, <1>11, <2>1 DEF Current
<1>13. torn \/ Modular(Now, o, b)
  <2>1. torn \/ Modular(Now, own, bundle) BY <1>3, <1>5 DEF Settled
  <2>2. IsModular(Now) => SourceIn(Now, o[a]).from # "own" BY SourceIs
  <2>3. QED BY <1>8, <1>9, <1>11, <2>1, <2>2 DEF Modular
<1>14. PICK r : r = Store!Idle OBVIOUS
<1>15. /\ req' = [req EXCEPT ![p] = r] /\ own' = o /\ bundle' = b
       /\ UNCHANGED <<up, behind, torn>> /\ Now' = Now
  BY <1>1, <1>4, <1>6, <1>9, <1>10, <1>14 DEF Store!Save, Store!To, Now
<1>16. Fine(r, Now, o, b, behind, torn) BY <1>14, IdleFine
<1>17. Settled(r, Now, o, b, behind, torn) BY <1>12, <1>13 DEF Settled
<1>18. b = [d \in StoredAgents |-> b[d]] BY <1>11
<1>19. behind \in BOOLEAN /\ torn \in BOOLEAN BY DEF StoreInv, StoreTyped
<1>20. QED BY <1>3, <1>8, <1>15, <1>16, <1>17, <1>18, <1>19, StoreStep

LEMMA CrashKeeps ==
  ASSUME StoreInv, Store!Crash
  PROVE  StoreInv'
<1>1. \A q \in Requests : req'[q] = Store!Idle BY DEF Store!Crash
<1>2. PICK i : i = Store!Idle OBVIOUS
<1>3. \A s, o, b, l, t : Fine(i, s, o, b, l, t) /\ i.pc = "idle" /\ ~i.flip BY <1>2, IdleFine
<1>4. UNCHANGED <<own, bundle>> /\ Now' = Now BY DEF Store!Crash, Now
<1>5. req' = [q \in Requests |-> req'[q]] BY <1>1 DEF Store!Crash
<1>6. behind' = (behind \/ \E q \in Requests : req[q].pc \in Pending)
      /\ torn' = (torn \/ \E q \in Requests : req[q].flip) /\ up' = FALSE
  BY DEF Store!Crash, Pending
<1>7. StoreTyped'
  <2>1. behind' \in BOOLEAN /\ torn' \in BOOLEAN
    <3>1. behind \in BOOLEAN /\ torn \in BOOLEAN BY DEF StoreInv, StoreTyped
    <3>2. (behind \/ \E q \in Requests : req[q].pc \in Pending) \in BOOLEAN BY <3>1
    <3>3. (torn \/ \E q \in Requests : req[q].flip) \in BOOLEAN BY <3>1
    <3>4. QED BY <1>6, <3>2, <3>3
  <2>2. QED BY <1>4, <1>5, <1>6, <2>1 DEF StoreInv, StoreTyped
<1>8. Sound(Now)' BY <1>4 DEF StoreInv, Sound
<1>9. OneHolder' BY <1>1, <1>2, <1>3 DEF OneHolder
<1>10. behind' \/ Current(Now, own, bundle) BY <1>6 DEF StoreInv
<1>11. torn' \/ Modular(Now, own, bundle) BY <1>6 DEF StoreInv
<1>12. \A q \in Requests : Fine(req[q], Now, own, bundle, behind, torn)'
  BY <1>1, <1>2, <1>3 DEF Fine
<1>13. QED BY <1>4, <1>7, <1>8, <1>9, <1>10, <1>11, <1>12 DEF StoreInv

LEMMA BootKeeps ==
  ASSUME StoreInv, Store!Boot
  PROVE  StoreInv'
<1>1. \A q \in Requests : req[q].pc = "idle" BY DEF Store!Boot, StoreInv, OneHolder
<1>2. UNCHANGED <<own, req, behind, torn>> /\ Now' = Now /\ up' = TRUE BY DEF Store!Boot, Now
<1>3. \A q \in Requests : req[q].pc \notin Pending /\ ~req[q].flip
  BY <1>1 DEF StoreInv, Fine, Pending
<1>4. behind \/ Current(Now, own, bundle) BY <1>3 DEF StoreInv
<1>5. torn \/ Modular(Now, own, bundle) BY <1>3 DEF StoreInv
<1>6. PICK built \in SUBSET StoredAgents :
        bundle' = [a \in StoredAgents |-> IF a \in built THEN SourceIn(Now, own[a]) ELSE bundle[a]]
  <2>1. PICK built \in SUBSET {a \in Store!Registered : bundle[a] = None} :
          bundle' = [a \in StoredAgents |-> IF a \in built THEN Store!Source(a) ELSE bundle[a]]
    BY DEF Store!Boot
  <2>2. QED BY <2>1, SourceIs DEF Store!Registered
<1>7. PICK b : b = bundle' OBVIOUS
<1>8. b = [a \in StoredAgents |-> b[a]] /\ \A a \in StoredAgents : b[a] \in {SourceIn(Now, own[a]), bundle[a]}
  BY <1>6, <1>7
<1>9. behind \/ Current(Now, own, b) BY <1>4, <1>8 DEF Current
<1>10. torn \/ Modular(Now, own, b)
  <2>1. \A a : IsModular(Now) => SourceIn(Now, own[a]).from # "own" BY SourceIs
  <2>2. QED BY <1>5, <1>8, <2>1 DEF Modular
<1>11. \A q \in Requests : Fine(req[q], Now, own, b, behind, torn)
  BY <1>1, <1>3 DEF StoreInv, Fine
<1>12. StoreTyped' /\ OneHolder' /\ Sound(Now)'
  BY <1>1, <1>2, <1>7, <1>8 DEF StoreInv, StoreTyped, OneHolder, Sound
<1>13. QED BY <1>2, <1>7, <1>9, <1>10, <1>11, <1>12 DEF StoreInv

LEMMA StoreInit == ASSUME Store!StoreAssumption PROVE Store!Init => StoreInv
<1> SUFFICES ASSUME Store!Init PROVE StoreInv
  OBVIOUS
<1>1. PICK i : i = Store!Idle OBVIOUS
<1>2. \A s, o, b, l, t : Fine(i, s, o, b, l, t) /\ i.pc = "idle" BY <1>1, IdleFine
<1>3. Now = <<[c \in Caps |-> None], None, None, FALSE>> BY DEF Store!Init, Now
<1>4. Now \in Stores BY <1>3 DEF Stores, Texts
<1>5. Sound(Now) /\ ~IsModular(Now) BY <1>3 DEF Sound, IsModular, Store!Modular
<1>6. StoreTyped BY <1>4 DEF StoreTyped, Store!Init, Texts
<1>7. OneHolder BY <1>1, <1>2 DEF OneHolder, Store!Init
<1>8. Current(Now, own, bundle) BY DEF Current, Store!Init
<1>9. Modular(Now, own, bundle) BY <1>5 DEF Modular
<1>10. QED BY <1>1, <1>2, <1>5, <1>6, <1>7, <1>8, <1>9 DEF StoreInv, Store!Init

LEMMA StoreNext ==
  ASSUME Store!StoreAssumption, StoreInv, Store!Next
  PROVE  StoreInv'
<1>1. CASE Store!Crash BY <1>1, CrashKeeps
<1>2. CASE Store!Boot BY <1>2, BootKeeps
<1>3. ASSUME NEW p \in Requests,
             \/ \E c \in Caps : Store!DeleteModule(p, c) \/ \E t \in Store!ModuleTexts : Store!PutModule(p, c, t)
             \/ \E new \in (SUBSET Caps) \cup {None} : Store!SetRoles(p, new)
             \/ \E t \in Store!EntryTexts : Store!PutEntry(p, t)
             \/ Store!PutFragment(p) \/ Store!DeleteFragment(p) \/ Store!DeleteEntry(p)
      PROVE  StoreInv'
  BY <1>3, WritesKeep
<1>4. ASSUME NEW p \in Requests,
             Store!ResolveAgents(p) \/ Store!Built(p) \/ Store!BuildFails(p) \/ Store!UndoFlip(p)
             \/ Store!Save(p)
      PROVE  StoreInv'
  BY <1>4, ResolveKeeps, BuiltKeeps, BuildFailsKeeps, UndoKeeps, SaveKeeps
<1>5. ASSUME NEW p \in Requests, NEW a \in StoredAgents,
             Store!Register(p, a) \/ \E t \in Store!OwnTexts : Store!PutAgent(p, a, t)
      PROVE  StoreInv'
  <2>1. "own" \in Store!OwnTexts BY DEF Store!OwnTexts
  <2>2. QED BY <1>5, <2>1, PutAgentKeeps
<1>6. QED BY <1>1, <1>2, <1>3, <1>4, <1>5 DEF Store!Next

LEMMA StoreBox == StoreInv /\ [RowsNext]_rowsVars /\ Store!StoreAssumption => StoreInv'
<1> SUFFICES ASSUME StoreInv, [RowsNext]_rowsVars, Store!StoreAssumption PROVE StoreInv'
  OBVIOUS
<1>1. CASE Store!Next BY <1>1, StoreNext
<1>2. CASE UNCHANGED storeVars
  <2>1. UNCHANGED <<own, bundle, req, up, behind, torn>> /\ Now' = Now
    BY <1>2 DEF storeVars, Now
  <2>2. StoreTyped' /\ Sound(Now)' /\ OneHolder'
    BY <2>1 DEF StoreInv, StoreTyped, Sound, OneHolder
  <2>3. QED BY <2>1, <2>2 DEF StoreInv
<1>3. QED BY <1>1, <1>2 DEF RowsNext, rowsVars, storeVars

LEMMA StoreStays == RowsSpec => []StoreInv
<1>1. Store!StoreAssumption BY RowsAssumption
<1>2. RowsInit => StoreInv BY <1>1, StoreInit DEF RowsInit
<1>3. StoreInv /\ [RowsNext]_rowsVars => StoreInv' BY <1>1, StoreBox
<1>4. QED BY <1>2, <1>3, PTL DEF RowsSpec

\* What is stored is in force: whatever requests are accepted, in any order, with
\* builds that fail and processes that die, the stored policy resolves, the bundles
\* are those of it unless a build was missed, and a modular project enforces modules.
THEOREM PolicyIsInForce == RowsSpec => []StoredIsInForce
<1>1. StoreInv => StoredIsInForce
  <2> SUFFICES ASSUME StoreInv
               PROVE  Store!StoredPolicyResolves /\ Store!BundlesCurrent /\ Store!ModularBundles
    BY DEF StoredIsInForce
  <2>1. Store!StoredPolicyResolves BY StoreIs DEF Store!StoredPolicyResolves, Store!Resolves
  <2>2. Store!BundlesCurrent
    BY FreeIs, SourceIs DEF Store!BundlesCurrent, Store!Registered, Current
  <2>3. Store!ModularBundles
    BY FreeIs DEF Store!ModularBundles, Store!Registered, Modular, IsModular, Now
  <2>4. QED BY <2>1, <2>2, <2>3
<1>2. QED BY <1>1, StoreStays, PTL

-----------------------------------------------------------------------------
(* Members.                                                                   *)

\* What a request that goes on has found out: who it is about, and that an owner
\* it takes away was not the only one.
Fit(r) ==
  /\ r.pc \in {"change", "remove", "findInvitee"} => r.target \in Users
  /\ r.pc = "setRole" /\ r.seen = Org!Owner /\ r.role # Org!Owner => r.owners >= 2
  /\ r.pc \in {"sweep", "delete"} /\ r.seen = Org!Owner => r.owners >= 2

\* A live key of nobody's is late ...
Orphans == \A k \in Keys : key[k].owner # None /\ member[key[k].owner] = None => key[k].late

\* ... and so is one that a removal under way has not found.
Unswept(r) ==
  r.pc = "delete" => \A k \in Keys :
    key[k].owner # None /\ key[k].owner = r.target /\ k \notin r.found => key[k].late

OrgInv ==
  /\ Org!TypeOK
  /\ \A p \in Requests : Fit(orgReq[p]) /\ Unswept(orgReq[p])
  /\ Orphans

LEMMA OrgSizes == \A S : Org!Cardinality(S) = Cardinality(S) /\ Org!IsFiniteSet(S) = IsFiniteSet(S)
BY DEF Org!Cardinality, Org!IsFiniteSet, Cardinality, IsFiniteSet

LEMMA OrgCounts ==
  ASSUME Org!OrgAssumption
  PROVE  /\ Org!Cardinality(Users) \in Nat
         /\ Org!Cardinality(Org!Owners) \in Nat /\ Org!Cardinality(Org!Owners) <= Org!Cardinality(Users)
<1>1. IsFiniteSet(Users) /\ Org!Owners \subseteq Users BY OrgSizes DEF Org!OrgAssumption, Org!Owners
<1>2. QED BY <1>1, OrgSizes, FS_CardinalityType, FS_Subset

LEMMA IdleIs ==
  ASSUME Org!OrgAssumption
  PROVE  /\ Org!Idle \in Org!Request /\ Fit(Org!Idle) /\ Org!Idle.pc = "idle"
         /\ Org!Idle.seen = Org!Member /\ Org!Idle.owners = 0
<1>1. Org!Cardinality(Users) \in Nat BY OrgCounts
<1>2. 0 \in 0..Org!Cardinality(Users) BY <1>1
<1>3. QED BY <1>2 DEF Org!Idle, Org!Request, Org!PCs, Org!Ranks, Org!Member, Fit

\* A request goes on, and nothing else changes but invitations.
LEMMA OrgStep ==
  ASSUME OrgInv, NEW p \in Requests, NEW r \in Org!Request, Fit(r), r.pc # "delete",
         orgReq' = [orgReq EXCEPT ![p] = r], UNCHANGED <<member, key>>,
         invite' \in [Invites -> Org!InviteRow]
  PROVE  OrgInv'
<1>1. \A q \in Requests : orgReq'[q] = IF q = p THEN r ELSE orgReq[q] BY DEF OrgInv, Org!TypeOK
<1>2. Org!TypeOK' BY DEF OrgInv, Org!TypeOK
<1>3. \A q \in Requests : Fit(orgReq'[q]) BY <1>1 DEF OrgInv, Fit
<1>4. \A q \in Requests : Unswept(orgReq[q])' BY <1>1 DEF OrgInv, Unswept
<1>5. Orphans' BY DEF OrgInv, Orphans
<1>6. QED BY <1>2, <1>3, <1>4, <1>5 DEF OrgInv, Fit

LEMMA AskingIs ==
  ASSUME Org!OrgAssumption, OrgInv, NEW c \in Users, NEW u \in Users, member[c] # None,
         NEW pc \in {"change", "remove"}
  PROVE  /\ Org!Asking(c, u, pc) \in Org!Request
         /\ Org!Asking(c, u, pc).pc = pc /\ Org!Asking(c, u, pc).target = u
<1>1. PICK z \in Org!Request : z = Org!Idle BY IdleIs
<1>2. PICK k : k = IF c = u THEN member[c] ELSE None OBVIOUS
<1>3. k \in Org!Ranks \cup {None} BY <1>2 DEF OrgInv, Org!TypeOK
<1>4. pc \in Org!PCs BY DEF Org!PCs
<1>5. PICK y : y = [z EXCEPT !.pc = pc, !.target = u, !.rank = k] OBVIOUS
<1>6. y \in Org!Request /\ y.pc = pc /\ y.target = u
  BY <1>3, <1>4, <1>5 DEF Org!Request
<1>7. y = Org!Asking(c, u, pc) BY <1>1, <1>2, <1>5 DEF Org!Asking
<1>8. QED BY <1>6, <1>7

\* A role that a request has seen is a member's, or one it read before.
LEMMA FoundIs ==
  ASSUME Org!OrgAssumption, OrgInv, NEW p \in Requests,
         orgReq[p].target \in Users, member[orgReq[p].target] # None, NEW pc \in Org!PCs
  PROVE  /\ Org!Found(p, pc) \in Org!Request /\ Org!Found(p, pc).pc = pc
         /\ Org!Found(p, pc).seen = Org!SeenRole(p)
         /\ Org!Found(p, pc).role = orgReq[p].role
<1>1. PICK z \in Org!Request : z = orgReq[p] BY DEF OrgInv, Org!TypeOK
<1>2. PICK k : k = Org!SeenRole(p) OBVIOUS
<1>3. k \in Org!Ranks
  <2>1. CASE z.rank # None BY <1>1, <1>2, <2>1 DEF Org!SeenRole, Org!Request
  <2>2. CASE z.rank = None
    BY <1>1, <1>2, <2>2 DEF Org!SeenRole, OrgInv, Org!TypeOK
  <2>3. QED BY <2>1, <2>2
<1>4. PICK y : y = [z EXCEPT !.row = "held", !.seen = k, !.rank = None, !.pc = pc] OBVIOUS
<1>5. y \in Org!Request /\ y.pc = pc /\ y.seen = k /\ y.role = z.role
  BY <1>3, <1>4 DEF Org!Request
<1>6. y = Org!Found(p, pc) BY <1>1, <1>2, <1>4 DEF Org!Found
<1>7. QED BY <1>1, <1>2, <1>5, <1>6

LEMMA DoneKeeps ==
  ASSUME Org!OrgAssumption, OrgInv, NEW p \in Requests, Org!Done(p), UNCHANGED <<member, key>>,
         invite' \in [Invites -> Org!InviteRow]
  PROVE  OrgInv'
BY IdleIs, OrgStep DEF Org!Done, Org!To

LEMMA AskKeeps ==
  ASSUME Org!OrgAssumption, OrgInv, NEW p \in Requests, Org!Ask(p)
  PROVE  OrgInv'
<1>0. PICK z \in Org!Request : z = Org!Idle /\ Fit(z) /\ z.pc = "idle" /\ z.seen = 0 /\ z.owners = 0
  BY IdleIs DEF Org!Member
<1>1. PICK c \in Users :
        \/ \E u \in Users, role \in AskedRoles :
             Org!AskChangeRole(p, c, u, role) \/ Org!AskInvite(p, c, u, role)
        \/ \E u \in Users : Org!AskRemove(p, c, u) \/ Org!AskMint(p, c, u)
        \/ \E k \in Keys : Org!AskRevokeKey(p, c, k)
        \/ \E i \in Invites : Org!AskAccept(p, c, i) \/ Org!AskRevokeInvite(p, c, i)
  BY DEF Org!Ask
<1>2. invite \in [Invites -> Org!InviteRow] BY DEF OrgInv, Org!TypeOK
<1>3. AskedRoles \subseteq Org!Ranks /\ Org!Ranks = 0..2 BY DEF Org!OrgAssumption, Org!Ranks
<1>4. ASSUME NEW u \in Users, NEW role \in AskedRoles, Org!AskChangeRole(p, c, u, role)
      PROVE  OrgInv'
  <2>1. member[c] # None /\ UNCHANGED <<member, invite, key>>
    BY <1>4 DEF Org!AskChangeRole, Org!MayAsk, Org!IsMember
  <2>2. PICK a \in Org!Request : a = Org!Asking(c, u, "change") /\ a.pc = "change" /\ a.target = u
    BY <2>1, AskingIs
  <2>3. PICK y : y = [a EXCEPT !.role = role] OBVIOUS
  <2>4. y \in Org!Request /\ y.pc = "change" /\ y.target = u BY <1>3, <2>2, <2>3 DEF Org!Request
  <2>5. orgReq' = [orgReq EXCEPT ![p] = y]
    BY <1>4, <2>2, <2>3 DEF Org!AskChangeRole, Org!To
  <2>6. Fit(y) BY <2>4 DEF Fit
  <2>7. QED BY <1>2, <2>1, <2>4, <2>5, <2>6, OrgStep
<1>5. ASSUME NEW u \in Users, NEW role \in AskedRoles, Org!AskInvite(p, c, u, role)
      PROVE  OrgInv'
  <2>1. PICK y : y = [z EXCEPT !.pc = "cancelPending", !.target = u, !.role = role] OBVIOUS
  <2>2. y \in Org!Request /\ y.pc = "cancelPending" BY <1>3, <2>1 DEF Org!Request, Org!PCs
  <2>3. orgReq' = [orgReq EXCEPT ![p] = y] /\ UNCHANGED <<member, invite, key>>
    BY <1>0, <1>5, <2>1 DEF Org!AskInvite, Org!To
  <2>4. Fit(y) BY <2>2 DEF Fit
  <2>5. QED BY <1>2, <2>2, <2>3, <2>4, OrgStep
<1>6. ASSUME NEW u \in Users, Org!AskRemove(p, c, u) PROVE OrgInv'
  <2>1. member[c] # None /\ UNCHANGED <<member, invite, key>>
        /\ orgReq' = [orgReq EXCEPT ![p] = Org!Asking(c, u, "remove")]
    BY <1>6 DEF Org!AskRemove, Org!MayAsk, Org!IsMember, Org!To
  <2>2. PICK a \in Org!Request : a = Org!Asking(c, u, "remove") /\ a.pc = "remove" /\ a.target = u
    BY <2>1, AskingIs
  <2>3. Fit(a) BY <2>2 DEF Fit
  <2>4. QED BY <1>2, <2>1, <2>2, <2>3, OrgStep
<1>7. ASSUME NEW u \in Users, Org!AskMint(p, c, u) PROVE OrgInv'
  <2>1. PICK y : y = IF u = c THEN [z EXCEPT !.pc = "insertKey", !.target = u]
                     ELSE [z EXCEPT !.pc = "delegate", !.caller = c, !.target = u] OBVIOUS
  <2>2. y \in Org!Request /\ y.pc \in {"insertKey", "delegate"}
    <3>1. CASE u = c BY <2>1, <3>1 DEF Org!Request, Org!PCs
    <3>2. CASE u # c BY <2>1, <3>2 DEF Org!Request, Org!PCs
    <3>3. QED BY <3>1, <3>2
  <2>3. orgReq' = [orgReq EXCEPT ![p] = y] /\ UNCHANGED <<member, invite, key>>
    BY <1>0, <1>7, <2>1 DEF Org!AskMint, Org!To
  <2>4. Fit(y) BY <2>2 DEF Fit
  <2>5. QED BY <1>2, <2>2, <2>3, <2>4, OrgStep
<1>8. ASSUME NEW k \in Keys, Org!AskRevokeKey(p, c, k) PROVE OrgInv'
  <2>1. PICK y : y = [z EXCEPT !.pc = "revokeKey", !.link = k] OBVIOUS
  <2>2. y \in Org!Request /\ y.pc = "revokeKey" BY <2>1 DEF Org!Request, Org!PCs
  <2>3. orgReq' = [orgReq EXCEPT ![p] = y] /\ UNCHANGED <<member, invite, key>>
    BY <1>0, <1>8, <2>1 DEF Org!AskRevokeKey, Org!To
  <2>4. Fit(y) BY <2>2 DEF Fit
  <2>5. QED BY <1>2, <2>2, <2>3, <2>4, OrgStep
<1>9. ASSUME NEW i \in Invites, Org!AskAccept(p, c, i) PROVE OrgInv'
  <2>1. PICK role \in Org!Ranks : role = invite[i].role BY <1>2 DEF Org!InviteRow
  <2>2. PICK y : y = [z EXCEPT !.pc = "findInvitee", !.target = c, !.link = i, !.role = role]
    OBVIOUS
  <2>3. y \in Org!Request /\ y.pc = "findInvitee" /\ y.target = c
    BY <2>2 DEF Org!Request, Org!PCs
  <2>4. orgReq' = [orgReq EXCEPT ![p] = y] /\ UNCHANGED <<member, invite, key>>
    BY <1>0, <1>9, <2>1, <2>2 DEF Org!AskAccept, Org!To
  <2>5. Fit(y) BY <2>3 DEF Fit
  <2>6. QED BY <1>2, <2>3, <2>4, <2>5, OrgStep
<1>10. ASSUME NEW i \in Invites, Org!AskRevokeInvite(p, c, i) PROVE OrgInv'
  <2>1. PICK y : y = IF invite[i].email = c THEN [z EXCEPT !.pc = "revokeInvite", !.link = i]
                     ELSE [z EXCEPT !.pc = "authorizeRevoke", !.caller = c, !.link = i] OBVIOUS
  <2>2. y \in Org!Request /\ y.pc \in {"revokeInvite", "authorizeRevoke"}
    <3>1. CASE invite[i].email = c BY <2>1, <3>1 DEF Org!Request, Org!PCs
    <3>2. CASE invite[i].email # c BY <2>1, <3>2 DEF Org!Request, Org!PCs
    <3>3. QED BY <3>1, <3>2
  <2>3. orgReq' = [orgReq EXCEPT ![p] = y] /\ UNCHANGED <<member, invite, key>>
    BY <1>0, <1>10, <2>1 DEF Org!AskRevokeInvite, Org!To
  <2>4. Fit(y) BY <2>2 DEF Fit
  <2>5. QED BY <1>2, <2>2, <2>3, <2>4, OrgStep
<1>11. QED BY <1>1, <1>4, <1>5, <1>6, <1>7, <1>8, <1>9, <1>10

\* The same request at its next step, no removal's last.
LEMMA GoesOn ==
  ASSUME Org!OrgAssumption, OrgInv, NEW p \in Requests, NEW r \in Org!Request,
         Fit(r), r.pc # "delete", UNCHANGED <<member, invite, key>>,
         orgReq' = [orgReq EXCEPT ![p] = r] \/ Org!Done(p)
  PROVE  OrgInv'
<1>1. invite' \in [Invites -> Org!InviteRow] BY DEF OrgInv, Org!TypeOK
<1>2. CASE orgReq' = [orgReq EXCEPT ![p] = r] BY <1>1, <1>2, OrgStep
<1>3. CASE Org!Done(p) BY <1>1, <1>3, DoneKeeps
<1>4. QED BY <1>2, <1>3

LEMMA ChangeKeeps ==
  ASSUME Org!OrgAssumption, OrgInv, NEW p \in Requests, Org!ReadForChange(p)
  PROVE  OrgInv'
<1>1. UNCHANGED <<member, invite, key>> /\ orgReq[p].target \in Users
  BY DEF Org!ReadForChange, OrgInv, Fit
<1>2. PICK pc : pc = IF Org!SeenRole(p) = Org!Owner /\ orgReq[p].role # Org!Owner
                     THEN "countForChange" ELSE "setRole" OBVIOUS
<1>3. pc \in Org!PCs /\ pc \in {"countForChange", "setRole"} BY <1>2 DEF Org!PCs
<1>4. CASE member[orgReq[p].target] = None
  <2>1. Org!Done(p) BY <1>4 DEF Org!ReadForChange, Org!IsMember
  <2>2. QED BY <1>1, <2>1, DoneKeeps DEF OrgInv, Org!TypeOK
<1>5. CASE member[orgReq[p].target] # None
  <2>1. PICK r \in Org!Request : r = Org!Found(p, pc)
    BY <1>1, <1>3, <1>5, FoundIs
  <2>2. r.pc = pc /\ r.seen = Org!SeenRole(p) /\ r.role = orgReq[p].role
    BY <1>1, <1>3, <1>5, <2>1, FoundIs
  <2>3. orgReq' = [orgReq EXCEPT ![p] = r]
    BY <1>2, <1>5, <2>1 DEF Org!ReadForChange, Org!IsMember, Org!To
  <2>4. Fit(r) BY <1>2, <2>2 DEF Fit
  <2>5. QED BY <1>1, <1>3, <2>2, <2>3, <2>4, GoesOn
<1>6. QED BY <1>4, <1>5

LEMMA RemoveKeeps ==
  ASSUME Org!OrgAssumption, OrgInv, NEW p \in Requests, Org!ReadForRemove(p)
  PROVE  OrgInv'
<1>1. UNCHANGED <<member, invite, key>> /\ orgReq[p].target \in Users
  BY DEF Org!ReadForRemove, OrgInv, Fit
<1>2. PICK pc : pc = IF Org!SeenRole(p) = Org!Owner THEN "countForRemove" ELSE "sweep" OBVIOUS
<1>3. pc \in Org!PCs /\ pc \in {"countForRemove", "sweep"} BY <1>2 DEF Org!PCs
<1>4. CASE member[orgReq[p].target] = None
  <2>1. Org!Done(p) BY <1>4 DEF Org!ReadForRemove, Org!IsMember
  <2>2. QED BY <1>1, <2>1, DoneKeeps DEF OrgInv, Org!TypeOK
<1>5. CASE member[orgReq[p].target] # None
  <2>1. PICK r \in Org!Request : r = Org!Found(p, pc)
    BY <1>1, <1>3, <1>5, FoundIs
  <2>2. r.pc = pc /\ r.seen = Org!SeenRole(p)
    BY <1>1, <1>3, <1>5, <2>1, FoundIs
  <2>3. orgReq' = [orgReq EXCEPT ![p] = r]
    BY <1>2, <1>5, <2>1 DEF Org!ReadForRemove, Org!IsMember, Org!To
  <2>4. Fit(r) BY <1>2, <2>2 DEF Fit
  <2>5. QED BY <1>1, <1>3, <2>2, <2>3, <2>4, GoesOn
<1>6. QED BY <1>4, <1>5

\* Who goes on after a count has counted two owners.
LEMMA CountKeeps ==
  ASSUME Org!OrgAssumption, OrgInv, NEW p \in Requests, NEW from, NEW pc \in {"setRole", "sweep"},
         Org!CountOwners(p, from, pc)
  PROVE  OrgInv'
<1>1. PICK n \in Nat : n = Org!Cardinality(Org!Owners) /\ n <= Org!Cardinality(Users)
  BY OrgCounts
<1>2. PICK z \in Org!Request : z = orgReq[p] BY DEF OrgInv, Org!TypeOK
<1>3. UNCHANGED <<member, invite, key>> BY DEF Org!CountOwners
<1>4. CASE n <= 1
  <2>1. Org!Done(p) BY <1>1, <1>4 DEF Org!CountOwners
  <2>2. QED BY <1>3, <2>1, DoneKeeps DEF OrgInv, Org!TypeOK
<1>5. CASE ~(n <= 1)
  <2>1. PICK r : r = [z EXCEPT !.owners = n, !.pc = pc] OBVIOUS
  <2>2. n \in 0..Org!Cardinality(Users) /\ pc \in Org!PCs
    BY <1>1, OrgCounts DEF Org!PCs
  <2>3. r \in Org!Request /\ r.pc = pc /\ r.owners = n BY <2>1, <2>2 DEF Org!Request
  <2>4. orgReq' = [orgReq EXCEPT ![p] = r]
    BY <1>1, <1>2, <1>5, <2>1 DEF Org!CountOwners, Org!To
  <2>5. n >= 2 BY <1>5
  <2>6. Fit(r) BY <2>3, <2>5 DEF Fit
  <2>7. QED BY <1>3, <2>3, <2>4, <2>6, GoesOn
<1>6. QED BY <1>4, <1>5

\* Steps of one request to a point where nothing is asked of it.
LEMMA PlainKeeps ==
  ASSUME Org!OrgAssumption, OrgInv, NEW p \in Requests,
         Org!Delegate(p) \/ Org!CheckOwner(p) \/ Org!CancelPending(p) \/ Org!AuthorizeRevoke(p)
         \/ Org!Abandoned(p)
  PROVE  OrgInv'
<1>1. PICK z \in Org!Request : z = orgReq[p] BY DEF OrgInv, Org!TypeOK
<1>2. UNCHANGED <<member, invite, key>>
  BY DEF Org!Delegate, Org!CheckOwner, Org!CancelPending, Org!AuthorizeRevoke, Org!Abandoned
<1>3. PICK r \in Org!Request :
        /\ r.pc \in {"checkOwner", "insertKey", "insertInvite", "revokeInvite"}
        /\ orgReq' = [orgReq EXCEPT ![p] = r] \/ Org!Done(p)
  <2>1. \A pc \in {"checkOwner", "insertKey", "insertInvite", "revokeInvite"} : pc \in Org!PCs
    BY DEF Org!PCs
  <2>2. CASE Org!Delegate(p)
    <3>1. PICK y : y = [z EXCEPT !.pc = "checkOwner", !.caller = None] OBVIOUS
    <3>2. y \in Org!Request /\ y.pc = "checkOwner" BY <2>1, <3>1 DEF Org!Request
    <3>3. QED BY <1>1, <2>2, <3>1, <3>2 DEF Org!Delegate, Org!To
  <2>3. CASE Org!CheckOwner(p)
    <3>1. PICK y : y = [z EXCEPT !.pc = "insertKey"] OBVIOUS
    <3>2. y \in Org!Request /\ y.pc = "insertKey" BY <2>1, <3>1 DEF Org!Request
    <3>3. QED BY <1>1, <2>3, <3>1, <3>2 DEF Org!CheckOwner, Org!To
  <2>4. CASE Org!CancelPending(p)
    <3>1. PICK found : found = Org!PendingFor(orgReq[p].target) OBVIOUS
    <3>2. found \subseteq Invites BY <3>1 DEF Org!PendingFor
    <3>3. PICK y : y = [z EXCEPT !.found = found, !.pc = "insertInvite"] OBVIOUS
    <3>4. y \in Org!Request /\ y.pc = "insertInvite" BY <2>1, <3>2, <3>3 DEF Org!Request
    <3>5. QED BY <1>1, <2>4, <3>1, <3>3, <3>4 DEF Org!CancelPending, Org!To
  <2>5. CASE Org!AuthorizeRevoke(p)
    <3>1. PICK y : y = [z EXCEPT !.pc = "revokeInvite", !.caller = None] OBVIOUS
    <3>2. y \in Org!Request /\ y.pc = "revokeInvite" BY <2>1, <3>1 DEF Org!Request
    <3>3. QED BY <1>1, <2>5, <3>1, <3>2 DEF Org!AuthorizeRevoke, Org!To
  <2>6. CASE Org!Abandoned(p)
    <3>1. PICK y : y = [z EXCEPT !.pc = "insertKey"] OBVIOUS
    <3>2. y \in Org!Request /\ y.pc = "insertKey" BY <2>1, <3>1 DEF Org!Request
    <3>3. QED BY <2>6, <3>2 DEF Org!Abandoned
  <2>7. QED BY <2>2, <2>3, <2>4, <2>5, <2>6
<1>4. Fit(r) BY <1>3 DEF Fit
<1>5. QED BY <1>2, <1>3, <1>4, GoesOn

LEMMA FindInviteeKeeps ==
  ASSUME Org!OrgAssumption, OrgInv, NEW p \in Requests, Org!FindInvitee(p)
  PROVE  OrgInv'
<1>1. UNCHANGED <<member, invite, key>> /\ orgReq[p].target \in Users
  BY DEF Org!FindInvitee, OrgInv, Fit
<1>2. PICK z \in Org!Request : z = orgReq[p] BY DEF OrgInv, Org!TypeOK
<1>3. "accept" \in Org!PCs BY DEF Org!PCs
<1>4. PICK r \in Org!Request : r.pc = "accept" /\ orgReq' = [orgReq EXCEPT ![p] = r]
  <2>1. CASE member[orgReq[p].target] # None
    <3>1. PICK r \in Org!Request : r = Org!Found(p, "accept") /\ r.pc = "accept"
      BY <1>1, <1>3, <2>1, FoundIs
    <3>2. QED BY <2>1, <3>1 DEF Org!FindInvitee, Org!IsMember, Org!To
  <2>2. CASE member[orgReq[p].target] = None
    <3>1. PICK r : r = [z EXCEPT !.pc = "accept"] OBVIOUS
    <3>2. r \in Org!Request /\ r.pc = "accept" BY <1>3, <3>1 DEF Org!Request
    <3>3. QED BY <1>2, <2>2, <3>1, <3>2 DEF Org!FindInvitee, Org!IsMember, Org!To
  <2>3. QED BY <2>1, <2>2
<1>5. Fit(r) BY <1>4 DEF Fit
<1>6. QED BY <1>1, <1>4, <1>5, GoesOn

LEMMA InvitesKeep ==
  ASSUME Org!OrgAssumption, OrgInv, NEW p \in Requests, Org!InsertInvite(p) \/ Org!RevokeInvite(p)
  PROVE  OrgInv'
<1>1. Org!Done(p) /\ UNCHANGED <<member, key>> BY DEF Org!InsertInvite, Org!RevokeInvite
<1>2. Org!NoInvite \in Org!InviteRow
  BY DEF Org!NoInvite, Org!InviteRow, Org!Ranks, Org!Member
<1>3. invite' \in [Invites -> Org!InviteRow]
  <2>1. CASE Org!InsertInvite(p)
    <3>1. PICK z \in Org!Request : z = orgReq[p] BY DEF OrgInv, Org!TypeOK
    <3>2. z.target \in Users \cup {None} /\ z.role \in Org!Ranks BY <3>1 DEF Org!Request
    <3>3. PICK n : n = Org!NewInvite(p) OBVIOUS
    <3>4. n \in Org!InviteRow BY <3>1, <3>2, <3>3 DEF Org!NewInvite, Org!InviteRow
    <3>5. invite' = [i \in Invites |-> IF i \in orgReq[p].found THEN Org!NoInvite
                       ELSE IF i = Org!Least(Org!UnusedInvites) THEN n ELSE invite[i]]
      BY <2>1, <3>3 DEF Org!InsertInvite
    <3>6. QED BY <1>2, <3>4, <3>5 DEF OrgInv, Org!TypeOK
  <2>2. CASE Org!RevokeInvite(p) BY <1>2, <2>2 DEF Org!RevokeInvite, OrgInv, Org!TypeOK
  <2>3. QED BY <2>1, <2>2
<1>4. QED BY <1>1, <1>3, DoneKeeps

\* A request ends with what it has written.
LEMMA OrgEnd ==
  ASSUME Org!OrgAssumption, OrgInv, NEW p \in Requests, Org!Done(p),
         member' \in [Users -> Org!Ranks \cup {None}], invite' \in [Invites -> Org!InviteRow],
         key' \in [Keys -> Org!KeyRow],
         \A q \in Requests : q # p => Unswept(orgReq[q])', Orphans'
  PROVE  OrgInv'
<1>1. PICK r \in Org!Request : r = Org!Idle /\ Fit(r) /\ r.pc = "idle" BY IdleIs
<1>2. orgReq' = [orgReq EXCEPT ![p] = r] BY <1>1 DEF Org!Done, Org!To
<1>3. \A q \in Requests : orgReq'[q] = IF q = p THEN r ELSE orgReq[q]
  BY <1>2 DEF OrgInv, Org!TypeOK
<1>4. Org!TypeOK' BY <1>2 DEF OrgInv, Org!TypeOK
<1>5. \A q \in Requests : Fit(orgReq[q])' BY <1>1, <1>3 DEF OrgInv, Fit
<1>6. Unswept(orgReq[p])' BY <1>1, <1>3 DEF Unswept
<1>7. QED BY <1>4, <1>5, <1>6 DEF OrgInv

\* Rows of members change, and none goes.
LEMMA MembersKeep ==
  ASSUME Org!OrgAssumption, OrgInv, NEW p \in Requests, Org!Done(p), UNCHANGED key,
         NEW u, NEW r \in Org!Ranks, member' \in {member, [member EXCEPT ![u] = r]},
         invite' \in [Invites -> Org!InviteRow]
  PROVE  OrgInv'
<1>1. member' \in [Users -> Org!Ranks \cup {None}] /\ None \notin Org!Ranks
  <2>1. None \notin Org!Ranks BY DEF Org!OrgAssumption, Org!Ranks
  <2>2. CASE member' = member BY <2>1, <2>2 DEF OrgInv, Org!TypeOK
  <2>3. CASE member' = [member EXCEPT ![u] = r] BY <2>1, <2>3 DEF OrgInv, Org!TypeOK
  <2>4. QED BY <2>2, <2>3, <2>1
<1>2. key' \in [Keys -> Org!KeyRow] BY DEF OrgInv, Org!TypeOK
<1>3. \A v \in Users : member'[v] = None => member[v] = None
  BY <1>1 DEF OrgInv, Org!TypeOK
<1>4. \A q \in Requests : q # p => orgReq'[q] = orgReq[q]
  BY DEF Org!Done, Org!To, OrgInv, Org!TypeOK
<1>5. \A q \in Requests : q # p => Unswept(orgReq[q])' BY <1>4 DEF OrgInv, Unswept
<1>6. Orphans'
  <2>1. \A k \in Keys : key[k].owner \in Users \cup {None}
    BY DEF OrgInv, Org!TypeOK, Org!KeyRow
  <2>2. QED BY <1>3, <2>1 DEF OrgInv, Orphans
<1>7. QED BY <1>1, <1>2, <1>5, <1>6, OrgEnd

LEMMA SetRoleKeeps ==
  ASSUME Org!OrgAssumption, OrgInv, NEW p \in Requests, Org!SetRole(p)
  PROVE  OrgInv'
<1>1. orgReq[p].role \in Org!Ranks BY DEF OrgInv, Org!TypeOK, Org!Request
<1>2. member' \in {member, [member EXCEPT ![orgReq[p].target] = orgReq[p].role]}
      /\ UNCHANGED <<invite, key>> /\ Org!Done(p)
  BY DEF Org!SetRole
<1>3. QED BY <1>1, <1>2, MembersKeep DEF OrgInv, Org!TypeOK

LEMMA AcceptKeeps ==
  ASSUME Org!OrgAssumption, OrgInv, NEW p \in Requests, Org!AcceptInvite(p)
  PROVE  OrgInv'
<1>1. orgReq[p].role \in Org!Ranks BY DEF OrgInv, Org!TypeOK, Org!Request
<1>2. member' \in {member, [member EXCEPT ![orgReq[p].target] = orgReq[p].role]}
      /\ UNCHANGED key /\ Org!Done(p)
  BY DEF Org!AcceptInvite
<1>3. Org!NoInvite \in Org!InviteRow
  BY DEF Org!NoInvite, Org!InviteRow, Org!Ranks, Org!Member
<1>4. invite' \in [Invites -> Org!InviteRow]
  BY <1>3 DEF Org!AcceptInvite, OrgInv, Org!TypeOK
<1>5. QED BY <1>1, <1>2, <1>4, MembersKeep

\* The keys a removal has to find are found.
LEMMA SweepKeeps ==
  ASSUME Org!OrgAssumption, OrgInv, NEW p \in Requests, Org!SweepKeys(p)
  PROVE  OrgInv'
<1>1. PICK z \in Org!Request : z = orgReq[p] BY DEF OrgInv, Org!TypeOK
<1>2. PICK found : found = Org!LiveKeysOf(orgReq[p].target) OBVIOUS
<1>3. found \subseteq Keys /\ \A k \in Keys : key[k].owner = z.target => k \in found
  BY <1>1, <1>2 DEF Org!LiveKeysOf
<1>4. PICK r : r = [z EXCEPT !.found = found, !.pc = "delete"] OBVIOUS
<1>5. "delete" \in Org!PCs BY DEF Org!PCs
<1>6. /\ r \in Org!Request /\ r.pc = "delete" /\ r.found = found /\ r.target = z.target
      /\ r.seen = z.seen /\ r.owners = z.owners
  BY <1>3, <1>4, <1>5 DEF Org!Request
<1>7. z.pc = "sweep" /\ Fit(z) BY <1>1 DEF Org!SweepKeys, OrgInv
<1>8. orgReq' = [orgReq EXCEPT ![p] = r] /\ UNCHANGED <<member, invite, key>>
  BY <1>1, <1>2, <1>4 DEF Org!SweepKeys, Org!To
<1>9. \A q \in Requests : orgReq'[q] = IF q = p THEN r ELSE orgReq[q]
  BY <1>8 DEF OrgInv, Org!TypeOK
<1>10. Org!TypeOK' BY <1>6, <1>8 DEF OrgInv, Org!TypeOK
<1>11. Fit(r) /\ Unswept(r)' BY <1>3, <1>6, <1>7, <1>8 DEF Fit, Unswept
<1>12. \A q \in Requests : Fit(orgReq[q])'
  BY <1>9, <1>11 DEF OrgInv, Fit
<1>13. \A q \in Requests : Unswept(orgReq[q])'
  BY <1>8, <1>9, <1>11 DEF OrgInv, Unswept
<1>14. Orphans' BY <1>8 DEF OrgInv, Orphans
<1>15. QED BY <1>10, <1>12, <1>13, <1>14 DEF OrgInv

\* A new key is late if a removal will not find it.
LEMMA InsertKeyKeeps ==
  ASSUME Org!OrgAssumption, OrgInv, NEW p \in Requests, Org!InsertKey(p)
  PROVE  OrgInv'
<1>1. PICK u : u = orgReq[p].target OBVIOUS
<1>2. u \in Users \cup {None} BY <1>1 DEF OrgInv, Org!TypeOK, Org!Request
<1>3. PICK late \in BOOLEAN : late <=> Org!Swept(u) OBVIOUS
<1>4. PICK n : n = [owner |-> u, late |-> late] OBVIOUS
<1>5. n \in Org!KeyRow /\ n.owner = u /\ n.late = late BY <1>2, <1>4 DEF Org!KeyRow
<1>6. PICK j : j = Org!Least(Org!UnusedKeys) OBVIOUS
<1>7. key' = [key EXCEPT ![j] = n]
  <2>1. Org!Swept(u) \in BOOLEAN BY DEF Org!Swept, Org!IsMember
  <2>2. late = Org!Swept(u) BY <1>3, <2>1
  <2>3. QED BY <1>1, <1>4, <1>6, <2>2 DEF Org!InsertKey
<1>8. Org!Done(p) /\ UNCHANGED <<member, invite>> BY DEF Org!InsertKey
<1>9. key \in [Keys -> Org!KeyRow] BY DEF OrgInv, Org!TypeOK
<1>10. key' \in [Keys -> Org!KeyRow] BY <1>5, <1>7, <1>9
<1>11. \A k \in Keys : key'[k] = IF k = j THEN n ELSE key[k] BY <1>7, <1>9
<1>12. \A q \in Requests : q # p => orgReq'[q] = orgReq[q]
  BY <1>8 DEF Org!Done, Org!To, OrgInv, Org!TypeOK
<1>13. ASSUME NEW q \in Requests, q # p PROVE Unswept(orgReq[q])'
  <2>1. ASSUME NEW k \in Keys, orgReq[q].pc = "delete", key'[k].owner # None,
               key'[k].owner = orgReq[q].target, k \notin orgReq[q].found
        PROVE  key'[k].late
    <3>1. CASE k = j
      <4>1. Org!Swept(u) BY <1>5, <1>11, <2>1, <3>1 DEF Org!Swept
      <4>2. QED BY <1>3, <1>5, <1>11, <3>1, <4>1
    <3>2. CASE k # j BY <1>11, <2>1, <3>2 DEF OrgInv, Unswept
    <3>3. QED BY <3>1, <3>2
  <2>2. orgReq'[q] = orgReq[q] BY <1>12, <1>13
  <2>3. QED BY <2>1, <2>2 DEF Unswept
<1>14. Orphans'
  <2>1. ASSUME NEW k \in Keys, key'[k].owner # None, member[key'[k].owner] = None
        PROVE  key'[k].late
    <3>1. CASE k = j
      <4>1. Org!Swept(u) BY <1>5, <1>11, <2>1, <3>1 DEF Org!Swept, Org!IsMember
      <4>2. QED BY <1>3, <1>5, <1>11, <3>1, <4>1
    <3>2. CASE k # j BY <1>11, <2>1, <3>2 DEF OrgInv, Orphans
    <3>3. QED BY <3>1, <3>2
  <2>2. QED BY <1>8, <2>1 DEF Orphans
<1>15. member' \in [Users -> Org!Ranks \cup {None}] /\ invite' \in [Invites -> Org!InviteRow]
  BY <1>8 DEF OrgInv, Org!TypeOK
<1>16. QED BY <1>8, <1>10, <1>13, <1>14, <1>15, OrgEnd

\* Keys are only revoked.
LEMMA RevokedKeep ==
  ASSUME OrgInv, NEW K, key' = [k \in Keys |-> IF k \in K THEN Org!NoKey ELSE key[k]]
  PROVE  /\ key' \in [Keys -> Org!KeyRow]
         /\ \A k \in Keys : key'[k].owner # None => key'[k] = key[k] /\ k \notin K
<1>1. Org!NoKey \in Org!KeyRow /\ Org!NoKey.owner = None BY DEF Org!NoKey, Org!KeyRow
<1>2. QED BY <1>1 DEF OrgInv, Org!TypeOK

LEMMA RevokeKeyKeeps ==
  ASSUME Org!OrgAssumption, OrgInv, NEW p \in Requests, Org!RevokeKey(p)
  PROVE  OrgInv'
<1>1. Org!Done(p) /\ UNCHANGED <<member, invite>> BY DEF Org!RevokeKey
<1>2. key' = [k \in Keys |-> IF k \in {orgReq[p].link} THEN Org!NoKey ELSE key[k]]
  BY DEF Org!RevokeKey, OrgInv, Org!TypeOK
<1>3. /\ key' \in [Keys -> Org!KeyRow]
      /\ \A k \in Keys : key'[k].owner # None => key'[k] = key[k]
  BY <1>2, RevokedKeep
<1>4. \A q \in Requests : q # p => orgReq'[q] = orgReq[q]
  BY <1>1 DEF Org!Done, Org!To, OrgInv, Org!TypeOK
<1>5. \A q \in Requests : q # p => Unswept(orgReq[q])' BY <1>3, <1>4 DEF OrgInv, Unswept
<1>6. Orphans' BY <1>1, <1>3 DEF OrgInv, Orphans
<1>7. member' \in [Users -> Org!Ranks \cup {None}] /\ invite' \in [Invites -> Org!InviteRow]
  BY <1>1 DEF OrgInv, Org!TypeOK
<1>8. QED BY <1>1, <1>3, <1>5, <1>6, <1>7, OrgEnd

\* Who is removed keeps no key but a late one: the others were found.
LEMMA DeleteKeeps ==
  ASSUME Org!OrgAssumption, OrgInv, NEW p \in Requests, Org!DeleteMember(p)
  PROVE  OrgInv'
<1>1. PICK z \in Org!Request : z = orgReq[p] BY DEF OrgInv, Org!TypeOK
<1>2. z.pc = "delete" /\ Unswept(z) BY <1>1 DEF Org!DeleteMember, OrgInv
<1>3. /\ key' \in [Keys -> Org!KeyRow]
      /\ \A k \in Keys : key'[k].owner # None => key'[k] = key[k] /\ k \notin z.found
  BY <1>1, RevokedKeep DEF Org!DeleteMember
<1>4. UNCHANGED invite /\ Org!DeleteRow(p) BY DEF Org!DeleteMember
<1>5. PICK i \in Org!Request : i = Org!Idle /\ Fit(i) /\ i.pc = "idle" BY IdleIs
<1>6. CASE z.row = "held"
  <2>1. member' = [member EXCEPT ![z.target] = None] /\ Org!RowGone(p, z.target)
    BY <1>1, <1>4, <1>6 DEF Org!DeleteRow
  <2>2. ASSUME NEW q \in Requests
        PROVE  /\ orgReq'[q] \in Org!Request
               /\ Fit(orgReq[q])' /\ Unswept(orgReq[q])'
    <3>1. PICK y \in Org!Request : y = orgReq[q] BY DEF OrgInv, Org!TypeOK
    <3>2. PICK w : w = [y EXCEPT !.rank = None, !.row = IF y.row = "held" THEN "gone" ELSE y.row]
      OBVIOUS
    <3>3. /\ w \in Org!Request
          /\ w.pc = y.pc /\ w.target = y.target /\ w.role = y.role /\ w.seen = y.seen
          /\ w.owners = y.owners /\ w.found = y.found
      BY <3>2 DEF Org!Request
    <3>4. orgReq'[q] \in {i, y, w}
      BY <1>5, <2>1, <3>1, <3>2 DEF Org!RowGone
    <3>5. Fit(y) /\ Unswept(y) BY <3>1 DEF OrgInv
    <3>6. Fit(w) /\ Unswept(w) BY <3>3, <3>5 DEF Fit, Unswept
    <3>7. Unswept(i) BY <1>5 DEF Unswept
    <3>8. PICK x \in {i, y, w} : x = orgReq'[q] BY <3>4
    <3>9. Unswept(x)'
      <4>1. Unswept(x) BY <3>5, <3>6, <3>7
      <4>2. QED BY <1>3, <4>1 DEF Unswept
    <3>10. Unswept(orgReq[q])' BY <3>8, <3>9 DEF Unswept
    <3>11. Fit(orgReq[q])' BY <1>5, <3>5, <3>6, <3>8 DEF Fit
    <3>12. QED BY <3>3, <3>8, <3>10, <3>11
  <2>3. DOMAIN orgReq' = Requests /\ orgReq' = [q \in Requests |-> orgReq'[q]]
    BY <2>1 DEF Org!RowGone
  <2>4. orgReq' \in [Requests -> Org!Request] BY <2>2, <2>3
  <2>5. Orphans'
    <3>1. ASSUME NEW k \in Keys, key'[k].owner # None, member'[key'[k].owner] = None
          PROVE  key'[k].late
      <4>1. key'[k] = key[k] /\ k \notin z.found BY <1>3, <3>1
      <4>2. CASE key[k].owner = z.target BY <1>2, <3>1, <4>1, <4>2 DEF Unswept
      <4>3. CASE key[k].owner # z.target
        <5>1. member[key[k].owner] = None
          BY <2>1, <3>1, <4>1, <4>3 DEF OrgInv, Org!TypeOK
        <5>2. QED BY <3>1, <4>1, <5>1 DEF OrgInv, Orphans
      <4>4. QED BY <4>2, <4>3
    <3>2. QED BY <3>1 DEF Orphans
  <2>6. member' \in [Users -> Org!Ranks \cup {None}] BY <2>1 DEF OrgInv, Org!TypeOK
  <2>7. Org!TypeOK' BY <1>3, <1>4, <2>4, <2>6 DEF OrgInv, Org!TypeOK
  <2>8. QED BY <2>2, <2>5, <2>7 DEF OrgInv
<1>7. CASE z.row # "held"
  <2>1. member' = member /\ Org!Done(p) BY <1>1, <1>4, <1>7 DEF Org!DeleteRow
  <2>2. \A q \in Requests : q # p => orgReq'[q] = orgReq[q]
    BY <2>1 DEF Org!Done, Org!To, OrgInv, Org!TypeOK
  <2>3. \A q \in Requests : q # p => Unswept(orgReq[q])' BY <1>3, <2>2 DEF OrgInv, Unswept
  <2>4. Orphans' BY <1>3, <2>1 DEF OrgInv, Orphans
  <2>5. member' \in [Users -> Org!Ranks \cup {None}] /\ invite' \in [Invites -> Org!InviteRow]
    BY <1>4, <2>1 DEF OrgInv, Org!TypeOK
  <2>6. QED BY <1>3, <2>1, <2>3, <2>4, <2>5, OrgEnd
<1>8. QED BY <1>6, <1>7

LEMMA OrgInit == ASSUME Org!OrgAssumption PROVE Org!Init => OrgInv
<1> SUFFICES ASSUME Org!Init PROVE OrgInv
  OBVIOUS
<1>1. Org!Ranks = 0..2 /\ None \notin Users BY DEF Org!Ranks, Org!OrgAssumption
<1>2. Org!NoInvite \in Org!InviteRow /\ Org!NoKey \in Org!KeyRow /\ Org!NoKey.owner = None
  BY <1>1 DEF Org!NoInvite, Org!NoKey, Org!InviteRow, Org!KeyRow, Org!Member
<1>3. Org!TypeOK BY <1>1, <1>2, IdleIs DEF Org!Init, Org!TypeOK, Org!Owner
<1>4. \A p \in Requests : Fit(orgReq[p]) /\ Unswept(orgReq[p])
  BY IdleIs DEF Org!Init, Unswept
<1>5. Orphans BY <1>2 DEF Org!Init, Orphans
<1>6. QED BY <1>3, <1>4, <1>5 DEF OrgInv

LEMMA OrgNext ==
  ASSUME Org!OrgAssumption, OrgInv, Org!Next
  PROVE  OrgInv'
<1>1. PICK p \in Requests : Org!Ask(p) \/ Org!Proceed(p) \/ Org!Abandoned(p) BY DEF Org!Next
<1>2. CASE Org!Ask(p) BY <1>2, AskKeeps
<1>3. CASE Org!Proceed(p)
  <2>1. CASE Org!ReadForChange(p) BY <2>1, ChangeKeeps
  <2>2. CASE Org!CountOwners(p, "countForChange", "setRole") BY <2>2, CountKeeps
  <2>3. CASE Org!SetRole(p) BY <2>3, SetRoleKeeps
  <2>4. CASE Org!ReadForRemove(p) BY <2>4, RemoveKeeps
  <2>5. CASE Org!CountOwners(p, "countForRemove", "sweep") BY <2>5, CountKeeps
  <2>6. CASE Org!SweepKeys(p) BY <2>6, SweepKeeps
  <2>7. CASE Org!DeleteMember(p) BY <2>7, DeleteKeeps
  <2>8. CASE Org!InsertKey(p) BY <2>8, InsertKeyKeeps
  <2>9. CASE Org!RevokeKey(p) BY <2>9, RevokeKeyKeeps
  <2>10. CASE Org!FindInvitee(p) BY <2>10, FindInviteeKeeps
  <2>11. CASE Org!AcceptInvite(p) BY <2>11, AcceptKeeps
  <2>12. CASE Org!InsertInvite(p) \/ Org!RevokeInvite(p) BY <2>12, InvitesKeep
  <2>13. CASE Org!Delegate(p) \/ Org!CheckOwner(p) \/ Org!CancelPending(p) \/ Org!AuthorizeRevoke(p)
    BY <2>13, PlainKeeps
  <2>14. QED
    BY <1>3, <2>1, <2>2, <2>3, <2>4, <2>5, <2>6, <2>7, <2>8, <2>9, <2>10, <2>11, <2>12, <2>13
    DEF Org!Proceed
<1>4. CASE Org!Abandoned(p) BY <1>4, PlainKeeps
<1>5. QED BY <1>1, <1>2, <1>3, <1>4

\* A step of the members, or one that leaves them alone.
LEMMA OrgBox == OrgInv /\ [RowsNext]_rowsVars /\ Org!OrgAssumption => OrgInv'
<1> SUFFICES ASSUME OrgInv, [RowsNext]_rowsVars, Org!OrgAssumption PROVE OrgInv'
  OBVIOUS
<1>1. CASE Org!Next BY <1>1, OrgNext
<1>2. CASE UNCHANGED orgVars
  BY <1>2 DEF orgVars, OrgInv, Org!TypeOK, Fit, Unswept, Orphans
<1>3. QED BY <1>1, <1>2 DEF RowsNext, rowsVars, orgVars

LEMMA OrgStays == RowsSpec => []OrgInv
<1>1. Org!OrgAssumption BY RowsAssumption
<1>2. RowsInit => OrgInv BY <1>1, OrgInit DEF RowsInit
<1>3. OrgInv /\ [RowsNext]_rowsVars => OrgInv' BY <1>1, OrgBox
<1>4. QED BY <1>2, <1>3, PTL DEF RowsSpec

\* A leaver keeps no key: whoever is removed, however removals, mints and joins
\* overlap, a live key of no member is one inserted after the sweep.
THEOREM LeaversAreSwept == RowsSpec => []LeaversKeysSwept
<1>1. OrgInv => LeaversKeysSwept
  BY DEF OrgInv, Orphans, LeaversKeysSwept, Org!LeaversKeysSwept, Org!IsMember
<1>2. QED BY <1>1, OrgStays, PTL

\* The count of one set is that of another's single member.
LEMMA OnlyOwner ==
  ASSUME NEW S, NEW u, S = {u}
  PROVE  Org!Cardinality(S) = 1
BY FS_Singleton, OrgSizes

\* The last owner goes: its row was changed to less, by a request that thinks so.
LEMMA OwnersGo ==
  ASSUME Org!OrgAssumption, OrgInv, NEW p \in Requests, NEW u, NEW r, r # Org!Owner,
         member' = [member EXCEPT ![u] = r], Org!Owners # {}, Org!Owners' = {}
  PROVE  u \in Users /\ member[u] = Org!Owner /\ Org!Cardinality(Org!Owners) = 1
<1>1. \A v \in Users : v # u => member'[v] = member[v] BY DEF OrgInv, Org!TypeOK
<1>2. \A v \in Users : member'[v] # Org!Owner BY DEF Org!Owners
<1>3. Org!Owners = {u} BY <1>1, <1>2 DEF Org!Owners
<1>4. QED BY <1>3, OnlyOwner DEF Org!Owners

\* Whoever takes the last owner away decided on rows that have changed.
LEMMA LastOwnerStep ==
  ASSUME Org!OrgAssumption, OrgInv, Org!Next, Org!Owners # {}, Org!Owners' = {}
  PROVE  \E p \in Requests : /\ orgReq[p].pc \in {"setRole", "delete", "accept"}
                             /\ orgReq'[p].pc = "idle" /\ ~Org!StillSo(p)
<1>1. PICK p \in Requests : Org!Ask(p) \/ Org!Proceed(p) \/ Org!Abandoned(p) BY DEF Org!Next
<1>2. member' # member BY DEF Org!Owners
<1>3. Org!SetRole(p) \/ Org!DeleteMember(p) \/ Org!AcceptInvite(p)
  BY <1>1, <1>2
  DEF Org!Ask, Org!Proceed, Org!Abandoned, Org!AskChangeRole, Org!AskInvite, Org!AskRemove,
      Org!AskMint, Org!AskRevokeKey, Org!AskAccept, Org!AskRevokeInvite, Org!ReadForChange,
      Org!CountOwners, Org!ReadForRemove, Org!SweepKeys, Org!Delegate, Org!CheckOwner,
      Org!InsertKey, Org!RevokeKey, Org!CancelPending, Org!InsertInvite, Org!FindInvitee,
      Org!AuthorizeRevoke, Org!RevokeInvite
<1>4. PICK z \in Org!Request : z = orgReq[p] /\ Fit(z) BY DEF OrgInv, Org!TypeOK
<1>5. z.role \in 0..2 /\ z.seen \in 0..2 /\ z.owners \in 0..Org!Cardinality(Users)
  BY DEF Org!Request, Org!Ranks
<1>6. z.pc \in {"setRole", "delete", "accept"}
  BY <1>3, <1>4 DEF Org!SetRole, Org!DeleteMember, Org!AcceptInvite
<1>7. Org!Done(p) => orgReq'[p].pc = "idle"
  BY IdleIs DEF Org!Done, Org!To, OrgInv, Org!TypeOK
<1>8. orgReq'[p].pc = "idle"
  <2>1. CASE Org!SetRole(p) \/ Org!AcceptInvite(p)
    BY <1>7, <2>1 DEF Org!SetRole, Org!AcceptInvite
  <2>2. CASE Org!DeleteMember(p)
    <3>1. Org!RowGone(p, z.target) => orgReq'[p].pc = "idle" BY IdleIs DEF Org!RowGone
    <3>2. QED BY <1>4, <1>7, <2>2, <3>1 DEF Org!DeleteMember, Org!DeleteRow
  <2>3. QED BY <1>3, <2>1, <2>2
<1>9. ~Org!StillSo(p)
  <2>1. SUFFICES ASSUME z.row = "held" => member[z.target] = z.seen,
                        z.owners \in {0, Org!Cardinality(Org!Owners)}
                 PROVE  FALSE
    BY <1>4 DEF Org!StillSo
  <2>2. CASE Org!SetRole(p)
    <3>1. /\ z.row = "held" /\ z.role # z.seen
          /\ member' = [member EXCEPT ![z.target] = z.role]
      BY <1>2, <1>4, <2>2 DEF Org!SetRole
    <3>2. z.role # Org!Owner \/ z.target \notin Users
      BY <3>1 DEF Org!Owners, OrgInv, Org!TypeOK
    <3>3. z.role # Org!Owner BY <1>2, <3>1, <3>2 DEF OrgInv, Org!TypeOK
    <3>4. member[z.target] = Org!Owner /\ Org!Cardinality(Org!Owners) = 1
      BY <3>1, <3>3, OwnersGo
    <3>5. z.pc = "setRole" /\ z.seen = Org!Owner BY <1>4, <2>1, <2>2, <3>1, <3>4 DEF Org!SetRole
    <3>6. z.owners >= 2 BY <1>4, <3>3, <3>5 DEF Fit
    <3>7. QED BY <2>1, <3>4, <3>6
  <2>3. CASE Org!DeleteMember(p)
    <3>1. z.row = "held" /\ member' = [member EXCEPT ![z.target] = None]
      BY <1>2, <1>4, <2>3 DEF Org!DeleteMember, Org!DeleteRow
    <3>2. None # Org!Owner BY DEF Org!OrgAssumption, Org!Owner
    <3>3. member[z.target] = Org!Owner /\ Org!Cardinality(Org!Owners) = 1
      BY <3>1, <3>2, OwnersGo
    <3>4. z.pc = "delete" /\ z.seen = Org!Owner BY <1>4, <2>1, <2>3, <3>1, <3>3 DEF Org!DeleteMember
    <3>5. z.owners >= 2 BY <1>4, <3>4 DEF Fit
    <3>6. QED BY <2>1, <3>3, <3>5
  <2>4. CASE Org!AcceptInvite(p)
    <3>1. member' = [member EXCEPT ![z.target] = z.role] /\ (Org!Joins(p) \/ Org!Upgraded(p))
      BY <1>2, <1>4, <2>4 DEF Org!AcceptInvite
    <3>2. z.role # Org!Owner
      <4>1. z.role # Org!Owner \/ z.target \notin Users
        BY <3>1 DEF Org!Owners, OrgInv, Org!TypeOK
      <4>2. QED BY <1>2, <3>1, <4>1 DEF OrgInv, Org!TypeOK
    <3>3. member[z.target] = Org!Owner BY <3>1, <3>2, OwnersGo
    <3>4. CASE Org!Joins(p)
      <4>1. member[z.target] = None BY <1>4, <3>4 DEF Org!Joins, Org!IsMember
      <4>2. None # Org!Owner BY DEF Org!OrgAssumption, Org!Owner
      <4>3. QED BY <3>3, <4>1, <4>2
    <3>5. CASE Org!Upgraded(p)
      <4>1. z.row = "held" /\ z.role > z.seen BY <1>4, <3>5 DEF Org!Upgraded
      <4>2. z.seen = 2 BY <2>1, <3>3, <4>1 DEF Org!Owner
      <4>3. QED BY <1>5, <4>1, <4>2
    <3>6. QED BY <3>1, <3>4, <3>5
  <2>5. QED BY <1>3, <2>2, <2>3, <2>4
<1>10. QED BY <1>4, <1>6, <1>8, <1>9

\* The last owner goes only by a request that read the rows before another
\* changed them: no count of the code, by itself, lets it go.
THEOREM LastOwnerStaysOtherwise == RowsSpec => LastOwnerLostToStaleRead
<1>1. Org!OrgAssumption BY RowsAssumption
<1>2. OrgInv /\ [RowsNext]_rowsVars =>
        [Org!Owners # {} /\ Org!Owners' = {} =>
           \E p \in Requests : /\ orgReq[p].pc \in {"setRole", "delete", "accept"}
                               /\ orgReq'[p].pc = "idle" /\ ~Org!StillSo(p)]_orgVars
  <2>1. CASE UNCHANGED orgVars BY <2>1
  <2>2. CASE OrgInv /\ Org!Next BY <1>1, <2>2, LastOwnerStep
  <2>3. QED BY <2>1, <2>2 DEF RowsNext, rowsVars
<1>3. QED BY <1>2, OrgStays, PTL DEF RowsSpec, LastOwnerLostToStaleRead, Org!LastOwnerLostToStaleRead, orgVars, Org!vars

-----------------------------------------------------------------------------
(* The cache of engines, as a set.                                            *)

Entry == [hash : Hashes, engine : Instances]

Elements(s) == {s[i] : i \in DOMAIN s}

Single(s) == \A i, j \in DOMAIN s : s[i].hash = s[j].hash => i = j

Listed(s) == s \in Seq(Entry) /\ Single(s)

HasHash(s, h) == \E e \in Elements(s) : e.hash = h

Rest(s, h) == {e \in Elements(s) : e.hash # h}

LEMMA EntriesAre == ASSUME Listed(policies) PROVE Elements(policies) \subseteq Entry
<1>1. PICK s \in Seq(Entry) : s = policies BY DEF Listed
<1>2. \A i \in DOMAIN s : s[i] \in Entry BY <1>1
<1>3. QED BY <1>1, <1>2 DEF Elements

LEMMA CachedIs == \A h : Engines!Cached(h) = {e \in Elements(policies) : e.hash = h}
BY DEF Engines!Cached, Engines!Range, Elements

LEMMA PlaceIs ==
  ASSUME NEW h, HasHash(policies, h)
  PROVE  Engines!Place(h) \in DOMAIN policies /\ policies[Engines!Place(h)].hash = h
<1>1. \E i \in DOMAIN policies : policies[i].hash = h BY DEF HasHash, Elements
<1>2. QED BY <1>1 DEF Engines!Place

\* A sequence without the element at p.
LEMMA CutIs ==
  ASSUME NEW E, NEW s \in Seq(E), Single(s), NEW p \in 1..Len(s)
  PROVE  \A w : w = SubSeq(s, 1, p - 1) \o SubSeq(s, p + 1, Len(s)) =>
           /\ w \in Seq(E) /\ Single(w) /\ Len(w) = Len(s) - 1
           /\ Elements(w) = Rest(s, s[p].hash)
<1>1. Len(s) \in Nat OBVIOUS
<1>2. PICK a, b : a = SubSeq(s, 1, p - 1) /\ b = SubSeq(s, p + 1, Len(s)) OBVIOUS
<1>3. a \in Seq(E) /\ Len(a) = p - 1 /\ \A i \in 1..p - 1 : a[i] = s[i]
  BY <1>1, <1>2
<1>4. b \in Seq(E) /\ Len(b) = Len(s) - p /\ \A i \in 1..Len(s) - p : b[i] = s[p + i]
  BY <1>1, <1>2
<1>5. PICK w : w = a \o b OBVIOUS
<1>6. w \in Seq(E) /\ Len(w) = Len(s) - 1
  <2>1. a \in Seq(E) /\ b \in Seq(E) BY <1>3, <1>4
  <2>2. w \in Seq(E) /\ Len(w) = Len(a) + Len(b) BY <1>5, <2>1
  <2>3. Len(a) = p - 1 /\ Len(b) = Len(s) - p BY <1>3, <1>4
  <2>4. QED BY <1>1, <2>2, <2>3
<1>7. \A i \in 1..Len(s) - 1 : w[i] = IF i < p THEN s[i] ELSE s[i + 1]
  <2>1. ASSUME NEW i \in 1..Len(s) - 1, i < p PROVE w[i] = s[i]
    BY <1>1, <1>3, <1>4, <1>5, <2>1
  <2>2. ASSUME NEW i \in 1..Len(s) - 1, ~(i < p) PROVE w[i] = s[i + 1]
    <3>1. w[i] = b[i - (p - 1)] BY <1>1, <1>3, <1>4, <1>5, <2>2
    <3>2. i - (p - 1) \in 1..Len(s) - p /\ p + (i - (p - 1)) = i + 1 BY <1>1, <2>2
    <3>3. QED BY <1>4, <3>1, <3>2
  <2>3. QED BY <2>1, <2>2
<1>8. p \in 1..Len(s) /\ p \in DOMAIN s /\ Len(s) \in Nat BY <1>1
<1>9. Len(w) = Len(s) - 1 /\ \A i \in 1..Len(s) - 1 : w[i] = IF i < p THEN s[i] ELSE s[i + 1]
  BY <1>6, <1>7
<1>10. DOMAIN w = 1..Len(s) - 1 /\ DOMAIN s = 1..Len(s) BY <1>9
<1>11. \A i \in DOMAIN w : \E j \in DOMAIN s :
         j # p /\ w[i] = s[j] /\ j = (IF i < p THEN i ELSE i + 1)
  BY <1>8, <1>9, <1>10
<1>12. \A j \in DOMAIN s : j # p => \E i \in DOMAIN w : w[i] = s[j]
  <2>1. ASSUME NEW j \in DOMAIN s, j < p PROVE \E i \in DOMAIN w : w[i] = s[j]
    BY <1>8, <1>9, <1>10, <2>1
  <2>2. ASSUME NEW j \in DOMAIN s, j > p PROVE \E i \in DOMAIN w : w[i] = s[j]
    <3>1. j - 1 \in DOMAIN w /\ ~(j - 1 < p) /\ (j - 1) + 1 = j BY <1>8, <1>10, <2>2
    <3>2. QED BY <1>9, <1>10, <3>1
  <2>3. QED BY <1>8, <1>10, <2>1, <2>2
<1>13. Single(w)
  <2>1. ASSUME NEW i \in DOMAIN w, NEW k \in DOMAIN w, w[i].hash = w[k].hash PROVE i = k
    <3>1. PICK j \in DOMAIN s : w[i] = s[j] /\ j = (IF i < p THEN i ELSE i + 1) BY <1>11
    <3>2. PICK l \in DOMAIN s : w[k] = s[l] /\ l = (IF k < p THEN k ELSE k + 1) BY <1>11
    <3>3. j = l BY <2>1, <3>1, <3>2 DEF Single
    <3>4. QED BY <1>8, <1>10, <3>1, <3>2, <3>3
  <2>2. QED BY <2>1 DEF Single
<1>14. \A j \in DOMAIN s : j # p => s[j].hash # s[p].hash BY <1>8 DEF Single
<1>15. Elements(w) = Rest(s, s[p].hash)
  BY <1>8, <1>11, <1>12, <1>14 DEF Elements, Rest
<1>16. QED BY <1>2, <1>5, <1>6, <1>13, <1>15

LEMMA WithoutIs ==
  ASSUME Listed(policies), NEW h
  PROVE  /\ Listed(Engines!Without(h))
         /\ Elements(Engines!Without(h)) = {e \in Elements(policies) : e.hash # h}
         /\ Len(Engines!Without(h)) <= Len(policies)
         /\ HasHash(policies, h) => Len(Engines!Without(h)) = Len(policies) - 1
<1>. PICK w : w = Engines!Without(h) OBVIOUS
<1>. PICK s : s = policies OBVIOUS
<1>0. s \in Seq(Entry) /\ Single(s) BY DEF Listed
<1>1. CASE ~HasHash(s, h)
  <2>1. w = s BY <1>1, CachedIs DEF Engines!Without, HasHash
  <2>2. QED BY <1>0, <1>1, <2>1 DEF HasHash, Listed
<1>2. CASE HasHash(s, h)
  <2>1. PICK p : p = Engines!Place(h) OBVIOUS
  <2>2. p \in DOMAIN s /\ s[p].hash = h BY <1>2, <2>1, PlaceIs
  <2>3. w = SubSeq(s, 1, p - 1) \o SubSeq(s, p + 1, Len(s))
    BY <1>2, <2>1, CachedIs DEF Engines!Without, Engines!RemoveAt, HasHash
  <2>4. p \in 1..Len(s) /\ Len(s) \in Nat BY <1>0, <2>2
  <2>5. /\ w \in Seq(Entry) /\ Single(w) /\ Len(w) = Len(s) - 1
        /\ Elements(w) = Rest(s, s[p].hash)
    BY <1>0, <2>3, <2>4, CutIs
  <2>6. QED BY <2>2, <2>4, <2>5 DEF Listed, Rest
<1>3. QED BY <1>1, <1>2

LEMMA AppendIs ==
  ASSUME NEW s, Listed(s), NEW e \in Entry, ~HasHash(s, e.hash)
  PROVE  /\ Listed(Append(s, e)) /\ Len(Append(s, e)) = Len(s) + 1
         /\ Append(s, e)[Len(s) + 1] = e
         /\ Elements(Append(s, e)) = Elements(s) \cup {e}
<1>0. s \in Seq(Entry) BY DEF Listed
<1>1. PICK a : a = Append(s, e) OBVIOUS
<1>2. a \in Seq(Entry) /\ Len(a) = Len(s) + 1 /\ a[Len(s) + 1] = e
      /\ \A i \in 1..Len(s) : a[i] = s[i]
  BY <1>0, <1>1
<1>3. DOMAIN a = 1..Len(s) + 1 /\ DOMAIN s = 1..Len(s) /\ Len(s) \in Nat BY <1>0, <1>2
<1>4. \A i \in DOMAIN a : (i \in DOMAIN s /\ a[i] = s[i]) \/ (i = Len(s) + 1 /\ a[i] = e)
  BY <1>2, <1>3
<1>5. \A i \in DOMAIN s : s[i].hash # e.hash BY DEF HasHash, Elements
<1>6. Single(a) BY <1>4, <1>5 DEF Single, Listed
<1>7. Elements(a) = Elements(s) \cup {e} BY <1>2, <1>3, <1>4 DEF Elements
<1>8. QED BY <1>1, <1>2, <1>6, <1>7 DEF Listed

\* A hit moves an entry, and changes none.
LEMMA TouchedIs ==
  ASSUME Listed(policies), NEW h, HasHash(policies, h)
  PROVE  /\ Listed(Engines!Touched(h)) /\ Len(Engines!Touched(h)) = Len(policies)
         /\ Elements(Engines!Touched(h)) = Elements(policies)
<1>1. PICK p : p = Engines!Place(h) OBVIOUS
<1>2. p \in DOMAIN policies /\ policies[p].hash = h BY <1>1, PlaceIs
<1>3. PICK w : w = Engines!Without(h) OBVIOUS
<1>4. PICK e : e = policies[p] OBVIOUS
<1>5. e \in Entry /\ e \in Elements(policies) /\ e.hash = h /\ Len(policies) \in Nat
  BY <1>2, <1>4 DEF Elements, Listed
<1>6. /\ Listed(w) /\ Len(w) = Len(policies) - 1
      /\ Elements(w) = {x \in Elements(policies) : x.hash # h}
  BY <1>3, WithoutIs
<1>7. ~HasHash(w, e.hash) BY <1>5, <1>6 DEF HasHash
<1>8. PICK r : r = Append(w, e) OBVIOUS
<1>9. Listed(r) /\ Len(r) = Len(w) + 1 /\ Elements(r) = Elements(w) \cup {e}
  BY <1>5, <1>6, <1>7, <1>8, AppendIs
<1>10. r = Engines!Touched(h) BY <1>1, <1>3, <1>4, <1>8 DEF Engines!Touched
<1>11. \A x \in Elements(policies) : x.hash = h => x = e
  BY <1>2, <1>4 DEF Elements, Listed, Single
<1>12. Elements(r) = Elements(policies) BY <1>5, <1>6, <1>9, <1>11
<1>13. Len(r) = Len(policies) BY <1>5, <1>6, <1>9
<1>14. QED BY <1>9, <1>10, <1>12, <1>13

\* What is stored is there, and is the only one of its hash; another may go.
LEMMA StoredIs ==
  ASSUME MaxEntries \in Nat \ {0}, Listed(policies), Len(policies) <= MaxEntries,
         NEW h \in Hashes, NEW i \in Instances
  PROVE  /\ Listed(Engines!Stored(h, i)) /\ Len(Engines!Stored(h, i)) <= MaxEntries
         /\ [hash |-> h, engine |-> i] \in Elements(Engines!Stored(h, i))
         /\ \A x \in Elements(Engines!Stored(h, i)) :
              \/ x = [hash |-> h, engine |-> i]
              \/ x \in Elements(policies) /\ x.hash # h
<1>1. PICK w : w = Engines!Without(h) OBVIOUS
<1>2. PICK e : e = [hash |-> h, engine |-> i] OBVIOUS
<1>3. e \in Entry /\ e.hash = h BY <1>2 DEF Entry
<1>4. /\ Listed(w) /\ Len(w) <= Len(policies)
      /\ Elements(w) = {x \in Elements(policies) : x.hash # h}
  BY <1>1, WithoutIs
<1>5. ~HasHash(w, e.hash) BY <1>3, <1>4 DEF HasHash
<1>6. PICK s : s = Append(w, e) OBVIOUS
<1>7. Listed(s) /\ Len(s) = Len(w) + 1 /\ s[Len(w) + 1] = e /\ Elements(s) = Elements(w) \cup {e}
  BY <1>3, <1>4, <1>5, <1>6, AppendIs
<1>8. PICK r : r = Engines!Stored(h, i) OBVIOUS
<1>9. r = IF Len(s) > MaxEntries THEN Tail(s) ELSE s
  BY <1>1, <1>2, <1>6, <1>8 DEF Engines!Stored
<1>10. Len(w) \in Nat /\ Len(policies) \in Nat /\ s \in Seq(Entry) BY <1>4, <1>7 DEF Listed
<1>11. CASE Len(s) > MaxEntries
  <2>1. r = Tail(s) /\ s # <<>> /\ Len(s) <= MaxEntries + 1 /\ Len(s) >= 2
    BY <1>4, <1>7, <1>9, <1>10, <1>11
  <2>2. r \in Seq(Entry) /\ Len(r) = Len(s) - 1 BY <1>10, <2>1, HeadTailProperties
  <2>3. \A k \in 1..Len(r) : r[k] = s[k + 1] BY <1>10, <2>1, HeadTailProperties
  <2>4. DOMAIN r = 1..Len(s) - 1 /\ DOMAIN s = 1..Len(s) /\ Len(s) \in Nat BY <1>10, <2>2
  <2>5. \A k \in DOMAIN r : k + 1 \in DOMAIN s /\ r[k] = s[k + 1] BY <2>2, <2>3, <2>4
  <2>6. Single(r)
    <3>1. ASSUME NEW k \in DOMAIN r, NEW j \in DOMAIN r, r[k].hash = r[j].hash PROVE k = j
      <4>1. k + 1 = j + 1 BY <1>7, <2>5, <3>1 DEF Single, Listed
      <4>2. QED BY <2>4, <4>1
    <3>2. QED BY <3>1 DEF Single
  <2>7. Elements(r) \subseteq Elements(s) BY <2>5 DEF Elements
  <2>8. e \in Elements(r)
    <3>1. Len(s) - 1 \in DOMAIN r /\ (Len(s) - 1) + 1 = Len(w) + 1 BY <1>7, <1>10, <2>1, <2>4
    <3>2. r[Len(s) - 1] = e BY <1>7, <2>5, <3>1
    <3>3. QED BY <3>1, <3>2 DEF Elements
  <2>9. Len(r) <= MaxEntries BY <2>1, <2>2, <2>4
  <2>10. QED BY <1>2, <1>4, <1>7, <1>8, <2>2, <2>6, <2>7, <2>8, <2>9 DEF Listed
<1>12. CASE ~(Len(s) > MaxEntries)
  <2>1. r = s /\ Len(s) <= MaxEntries BY <1>7, <1>9, <1>10, <1>12
  <2>2. QED BY <1>2, <1>4, <1>7, <1>8, <2>1
<1>13. QED BY <1>11, <1>12

-----------------------------------------------------------------------------
(* There is an instance, and a lock, that nobody refers to.                   *)

LEMMA EngineSizes ==
  \A S : Engines!Cardinality(S) = Cardinality(S) /\ Engines!IsFiniteSet(S) = IsFiniteSet(S)
BY DEF Engines!Cardinality, Engines!IsFiniteSet, Cardinality, IsFiniteSet

LEMMA ImageSize ==
  ASSUME NEW S, IsFiniteSet(S), NEW f, DOMAIN f = S, f = [x \in S |-> f[x]]
  PROVE  LET T == {f[x] : x \in S}
         IN  IsFiniteSet(T) /\ Cardinality(T) \in Nat /\ Cardinality(T) <= Cardinality(S)
<1>1. PICK T : T = {f[x] : x \in S} OBVIOUS
<1>2. f \in Surjection(S, T) BY <1>1 DEF Surjection
<1>3. IsFiniteSet(T) /\ Cardinality(T) <= Cardinality(S) BY <1>2, FS_Surjection
<1>4. Cardinality(T) \in Nat BY <1>3, FS_CardinalityType
<1>5. QED BY <1>1, <1>3, <1>4

\* Of more than two sets hold together, one is in neither.
LEMMA Spare ==
  ASSUME NEW S, IsFiniteSet(S), NEW A, IsFiniteSet(A), NEW B, IsFiniteSet(B),
         Cardinality(S) > Cardinality(A) + Cardinality(B)
  PROVE  \E x \in S : x \notin A \cup B
<1>1. SUFFICES ASSUME S \subseteq A \cup B PROVE FALSE
  OBVIOUS
<1>2. /\ IsFiniteSet(A \cup B)
      /\ Cardinality(A \cup B) = Cardinality(A) + Cardinality(B) - Cardinality(A \cap B)
  BY FS_Union
<1>3. IsFiniteSet(A \cap B) BY FS_Subset
<1>4. Cardinality(A) \in Nat /\ Cardinality(B) \in Nat /\ Cardinality(A \cap B) \in Nat
      /\ Cardinality(S) \in Nat
  BY <1>3, FS_CardinalityType
<1>5. Cardinality(S) <= Cardinality(A \cup B) BY <1>1, <1>2, FS_Subset
<1>6. QED BY <1>2, <1>4, <1>5

-----------------------------------------------------------------------------
(* What holds of every state of the engines.                                  *)

Loads == {"waiting", "loading"}
Busy == {"resetting", "writing", "evaluating", "reading"}
Having == Busy \cup {"ready", "answered"}

ThreadSet == [pc : {"idle"} \cup Loads \cup Having,
              hash : Hashes \cup {None}, slot : Locks \cup {None},
              engine : Instances \cup {None}, result : Threads \cup {None}]

InstanceSet == [hash : Hashes \cup {None}, lock : Threads \cup {None}, heap : 0..MaxHeap,
                input : Threads \cup {None}, output : Threads \cup {None}]

\* What a thread with record r holds, and what is in the memory it works in.
Holds(t, r, memory) ==
  /\ r.pc = "idle" => r.hash = None /\ r.slot = None /\ r.engine = None
  /\ r.pc \in Loads => r.hash \in Hashes /\ r.slot \in Locks /\ r.engine = None
  /\ r.pc \in Having => /\ r.hash \in Hashes /\ r.engine \in Instances /\ r.slot = None
                        /\ memory[r.engine].hash = r.hash
  /\ r.pc \in Busy => memory[r.engine].lock = t
  /\ r.pc = "writing" => memory[r.engine].heap = 0
  /\ r.pc = "evaluating" => memory[r.engine].heap <= 1 /\ memory[r.engine].input = t
  /\ r.pc = "reading" => memory[r.engine].output = t
  /\ r.pc = "answered" => r.result = t

\* Unless the hash was evicted, the thread's engine is the cached one, or the one
\* that the lock it waits for is about.
Shares(r, entries, locks, gone) ==
  r.hash \notin gone =>
    /\ r.pc \in Having => \E e \in entries : e.hash = r.hash /\ e.engine = r.engine
    /\ r.pc \in Loads => r.slot = locks[r.hash] \/ \E e \in entries : e.hash = r.hash
    /\ r.pc = "loading" => \A e \in entries : e.hash # r.hash

EngineTyped ==
  /\ Listed(policies) /\ Len(policies) <= MaxEntries
  /\ inflight \in [Hashes -> Locks \cup {None}]
  /\ instance \in [Instances -> InstanceSet]
  /\ thread \in [Threads -> ThreadSet]
  /\ evicted \subseteq Hashes

EngineInv ==
  /\ EngineTyped
  /\ \A e \in Elements(policies) : instance[e.engine].hash = e.hash
  /\ \A i \in Instances : instance[i].heap <= 2
  /\ \A t \in Threads : Holds(t, thread[t], instance)
  /\ \A t \in Threads : Shares(thread[t], Elements(policies), inflight, evicted)
  /\ \A t, u \in Threads :
       thread[t].pc = "loading" /\ thread[u].pc = "loading" /\ thread[t].slot = thread[u].slot
         => t = u

\* A call into the instance leaves the others as they were: no thread but its own
\* is at work in it.
LEMMA WorkKeeps ==
  ASSUME EngineInv, None \notin Threads, NEW t \in Threads, NEW r \in ThreadSet, NEW m \in InstanceSet,
         thread[t].pc \in Having, r.pc \in Having,
         r.hash = thread[t].hash, r.engine = thread[t].engine, r.slot = None,
         instance[thread[t].engine].lock \in {None, t},
         m.hash = instance[thread[t].engine].hash, m.heap <= 2,
         r.pc \in Busy => m.lock = t,
         r.pc = "writing" => m.heap = 0,
         r.pc = "evaluating" => m.heap <= 1 /\ m.input = t,
         r.pc = "reading" => m.output = t,
         r.pc = "answered" => r.result = t,
         thread' = [thread EXCEPT ![t] = r],
         instance' = [instance EXCEPT ![thread[t].engine] = m],
         UNCHANGED <<policies, inflight, evicted>>
  PROVE  EngineInv'
<1>1. EngineTyped /\ EngineTyped' BY DEF EngineInv, EngineTyped
<1>2. PICK x \in Instances : x = thread[t].engine BY DEF EngineInv, Holds
<1>3. instance'[x] = m /\ \A i \in Instances : i # x => instance'[i] = instance[i]
  BY <1>1, <1>2 DEF EngineTyped
<1>4. thread'[t] = r /\ \A u \in Threads : u # t => thread'[u] = thread[u]
  BY <1>1 DEF EngineTyped
<1>5. \A i \in Instances : instance'[i].hash = instance[i].hash BY <1>2, <1>3
<1>6. \A e \in Elements(policies) : e.engine \in Instances
  BY <1>1, EntriesAre DEF EngineTyped, Entry
<1>7. \A e \in Elements(policies)' : instance'[e.engine].hash = e.hash
  BY <1>5, <1>6 DEF EngineInv, Elements
<1>8. \A i \in Instances : instance'[i].heap <= 2 BY <1>3 DEF EngineInv
<1>9. ASSUME NEW u \in Threads PROVE Holds(u, thread'[u], instance')
  <2>1. CASE u = t
    <3>1. Holds(t, thread[t], instance) BY DEF EngineInv
    <3>2. thread[t].hash \in Hashes /\ instance[x].hash = thread[t].hash
      BY <1>2, <3>1 DEF Holds
    <3>3. QED BY <1>2, <1>3, <1>4, <2>1, <3>2 DEF Holds, Having, Busy, Loads
  <2>2. CASE u # t
    <3>1. Holds(u, thread[u], instance) /\ thread'[u] = thread[u] BY <1>4, <2>2 DEF EngineInv
    <3>2. CASE thread[u].engine = x
      <4>1. thread[u].pc \notin Busy BY <1>2, <2>2, <3>1, <3>2 DEF Holds
      <4>2. QED BY <1>5, <3>1, <3>2, <4>1 DEF Holds, Busy
    <3>3. CASE thread[u].engine # x
      <4>1. thread[u].pc \in Having => instance'[thread[u].engine] = instance[thread[u].engine]
        BY <1>3, <3>1, <3>3 DEF Holds
      <4>2. QED BY <3>1, <4>1 DEF Holds, Having, Busy
    <3>4. QED BY <3>2, <3>3
  <2>3. QED BY <2>1, <2>2
<1>10. ASSUME NEW u \in Threads PROVE Shares(thread'[u], Elements(policies), inflight, evicted)
  <2>1. Shares(thread[u], Elements(policies), inflight, evicted) BY DEF EngineInv
  <2>2. CASE u = t BY <1>4, <2>1, <2>2 DEF Shares, Having, Busy, Loads
  <2>3. CASE u # t BY <1>4, <2>1, <2>3
  <2>4. QED BY <2>2, <2>3
<1>11. \A u \in Threads : thread'[u].pc = "loading" =>
         thread[u].pc = "loading" /\ thread'[u].slot = thread[u].slot
  BY <1>4 DEF Having, Busy
<1>12. \A u, v \in Threads :
         thread'[u].pc = "loading" /\ thread'[v].pc = "loading" /\ thread'[u].slot = thread'[v].slot
           => u = v
  BY <1>11 DEF EngineInv
<1>13. Elements(policies)' = Elements(policies) BY DEF Elements
<1>14. QED BY <1>1, <1>7, <1>8, <1>9, <1>10, <1>12, <1>13 DEF EngineInv

\* A step of one thread at the cache that loads nothing.
LEMMA CacheKeeps ==
  ASSUME EngineInv, NEW t \in Threads, NEW r \in ThreadSet,
         thread' = [thread EXCEPT ![t] = r], instance' = instance,
         Listed(policies'), Len(policies') <= MaxEntries, Elements(policies') = Elements(policies),
         inflight' \in [Hashes -> Locks \cup {None}],
         evicted' \subseteq evicted,
         \A u \in Threads : thread'[u].hash \notin evicted' => thread'[u].hash \notin evicted,
         \A u \in Threads :
           u # t /\ thread[u].pc \in Loads /\ thread[u].hash \notin evicted =>
             \/ inflight'[thread[u].hash] = inflight[thread[u].hash]
             \/ HasHash(policies, thread[u].hash),
         Holds(t, r, instance), Shares(r, Elements(policies), inflight', evicted),
         r.pc = "loading" => \A u \in Threads : thread[u].pc = "loading" => thread[u].slot # r.slot
  PROVE  EngineInv'
<1>1. EngineTyped BY DEF EngineInv
<1>2. thread'[t] = r /\ \A u \in Threads : u # t => thread'[u] = thread[u]
  BY <1>1 DEF EngineTyped
<1>3. thread' \in [Threads -> ThreadSet] BY <1>1 DEF EngineTyped
<1>4. EngineTyped' BY <1>1, <1>3 DEF EngineTyped, Listed, Single
<1>5. Elements(policies)' = Elements(policies) BY DEF Elements
<1>6. ASSUME NEW u \in Threads PROVE Holds(u, thread'[u], instance')
  BY <1>2, <1>6 DEF EngineInv
<1>7. ASSUME NEW u \in Threads PROVE Shares(thread'[u], Elements(policies), inflight', evicted')
  <2>1. Shares(thread'[u], Elements(policies), inflight', evicted)
    <3>1. CASE u = t BY <1>2, <3>1
    <3>2. CASE u # t
      <4>1. Shares(thread[u], Elements(policies), inflight, evicted) BY DEF EngineInv
      <4>2. thread[u].pc \in Loads /\ thread[u].hash \notin evicted =>
              inflight'[thread[u].hash] = inflight[thread[u].hash] \/ HasHash(policies, thread[u].hash)
        BY <3>2
      <4>3. QED BY <1>2, <3>2, <4>1, <4>2 DEF Shares, HasHash
    <3>3. QED BY <3>1, <3>2
  <2>2. QED BY <2>1 DEF Shares
<1>8. \A u, v \in Threads :
         thread'[u].pc = "loading" /\ thread'[v].pc = "loading" /\ thread'[u].slot = thread'[v].slot
           => u = v
  <2>1. ASSUME NEW u \in Threads, NEW v \in Threads, thread'[u].pc = "loading",
               thread'[v].pc = "loading", thread'[u].slot = thread'[v].slot
        PROVE  u = v
    <3>1. CASE u = t BY <1>2, <2>1, <3>1
    <3>2. CASE v = t BY <1>2, <2>1, <3>2
    <3>3. CASE u # t /\ v # t BY <1>2, <2>1, <3>3 DEF EngineInv
    <3>4. QED BY <3>1, <3>2, <3>3
  <2>2. QED BY <2>1
<1>9. QED BY <1>4, <1>5, <1>6, <1>7, <1>8 DEF EngineInv

-----------------------------------------------------------------------------
(* The steps at the cache.                                                    *)

\* The records that the actions write.
LEMMA ReadyIs ==
  ASSUME NEW t \in Threads, NEW h \in Hashes, NEW i \in Instances, EngineTyped,
         Engines!Adopts(t, h, i)
  PROVE  \E r \in ThreadSet : /\ thread' = [thread EXCEPT ![t] = r] /\ r.pc = "ready"
                              /\ r.hash = h /\ r.engine = i /\ r.slot = None
<1>1. PICK r : r = [Engines!Idle EXCEPT !.pc = "ready", !.hash = h, !.engine = i] OBVIOUS
<1>2. r = [pc |-> "ready", hash |-> h, slot |-> None, engine |-> i, result |-> None]
  BY <1>1 DEF Engines!Idle
<1>3. r \in ThreadSet BY <1>2 DEF ThreadSet, Having
<1>4. thread' = [thread EXCEPT ![t] = r] BY <1>1, Zenon DEF Engines!Adopts
<1>5. QED BY <1>2, <1>3, <1>4

LEMMA NobodyIs ==
  /\ Engines!Idle \in ThreadSet
  /\ Engines!Idle = [pc |-> "idle", hash |-> None, slot |-> None, engine |-> None, result |-> None]
BY DEF Engines!Idle, ThreadSet

\* What is dropped from the record of the evicted concerns nobody.
LEMMA StillUsedIs ==
  ASSUME NEW S
  PROVE  /\ Engines!StillUsed(S) \subseteq S
         /\ \A u \in Threads : thread'[u].hash \notin Engines!StillUsed(S) => thread'[u].hash \notin S
BY DEF Engines!StillUsed

\* A hit.
LEMMA HitKeeps ==
  ASSUME EngineInv, NEW t \in Threads, NEW h \in Hashes, NEW e \in Elements(policies), e.hash = h,
         Engines!Adopts(t, h, e.engine), policies' = Engines!Touched(h),
         UNCHANGED <<inflight, instance>>,
         evicted' \in {evicted, Engines!StillUsed(evicted)}
  PROVE  EngineInv'
<1>1. EngineTyped BY DEF EngineInv
<1>2. e \in Entry BY <1>1, EntriesAre DEF EngineTyped
<1>3. PICK r \in ThreadSet : /\ thread' = [thread EXCEPT ![t] = r] /\ r.pc = "ready"
                             /\ r.hash = h /\ r.engine = e.engine /\ r.slot = None
  BY <1>1, <1>2, ReadyIs DEF Entry
<1>4. HasHash(policies, h) BY DEF HasHash
<1>5. /\ Listed(policies') /\ Len(policies') <= MaxEntries
      /\ Elements(policies') = Elements(policies)
  BY <1>1, <1>4, TouchedIs DEF EngineTyped
<1>6. Holds(t, r, instance) BY <1>2, <1>3 DEF Holds, Having, Loads, Busy, Entry, EngineInv
<1>7. Shares(r, Elements(policies), inflight, evicted) BY <1>3 DEF Shares, Loads
<1>8. /\ evicted' \subseteq evicted
      /\ \A u \in Threads : thread'[u].hash \notin evicted' => thread'[u].hash \notin evicted
  BY StillUsedIs
<1>9. inflight' \in [Hashes -> Locks \cup {None}] BY <1>1 DEF EngineTyped
<1>10. QED BY <1>3, <1>5, <1>6, <1>7, <1>8, <1>9, CacheKeeps

LEMMA FreeLock ==
  ASSUME Engines!EngineAssumption, EngineTyped, NEW t \in Threads, thread[t].slot = None,
         NEW h \in Hashes, inflight[h] = None
  PROVE  \E l \in Engines!UnusedLocks : l # None
<1>1. PICK slots : slots = [u \in Threads \ {t} |-> thread[u].slot] OBVIOUS
<1>2. PICK held : held = [g \in Hashes \ {h} |-> inflight[g]] OBVIOUS
<1>3. PICK A : A = {slots[u] : u \in Threads \ {t}} OBVIOUS
<1>4. PICK B : B = {held[g] : g \in Hashes \ {h}} OBVIOUS
<1>5. /\ IsFiniteSet(Threads) /\ IsFiniteSet(Hashes) /\ IsFiniteSet(Locks)
      /\ Cardinality(Locks) >= Cardinality(Threads) + Cardinality(Hashes) - 1
      /\ None \notin Locks
  BY EngineSizes DEF Engines!EngineAssumption
<1>6. /\ IsFiniteSet(Threads \ {t}) /\ Cardinality(Threads \ {t}) = Cardinality(Threads) - 1
      /\ IsFiniteSet(Hashes \ {h}) /\ Cardinality(Hashes \ {h}) = Cardinality(Hashes) - 1
  BY <1>5, FS_RemoveElement
<1>7. /\ Cardinality(Threads) \in Nat /\ Cardinality(Hashes) \in Nat /\ Cardinality(Locks) \in Nat
  BY <1>5, FS_CardinalityType
<1>8. IsFiniteSet(A) /\ Cardinality(A) \in Nat /\ Cardinality(A) <= Cardinality(Threads \ {t})
  BY <1>1, <1>3, <1>6, ImageSize
<1>9. IsFiniteSet(B) /\ Cardinality(B) \in Nat /\ Cardinality(B) <= Cardinality(Hashes \ {h})
  BY <1>2, <1>4, <1>6, ImageSize
<1>10. Cardinality(Locks) > Cardinality(A) + Cardinality(B) BY <1>5, <1>6, <1>7, <1>8, <1>9
<1>11. PICK l \in Locks : l \notin A \cup B BY <1>5, <1>8, <1>9, <1>10, Spare
<1>12. l # None BY <1>5, <1>11
<1>13. \A u \in Threads : thread[u].slot # l BY <1>1, <1>3, <1>11, <1>12
<1>14. \A g \in Hashes : inflight[g] # l BY <1>2, <1>4, <1>11, <1>12
<1>15. QED BY <1>11, <1>12, <1>13, <1>14 DEF Engines!UnusedLocks

LEMMA FreeInstance ==
  ASSUME Engines!EngineAssumption, EngineTyped, NEW t \in Threads, thread[t].engine = None
  PROVE  \E i : i \in Engines!UnusedInstances
<1>1. PICK s \in Seq(Entry) : s = policies BY DEF EngineTyped, Listed
<1>2. Len(s) \in Nat /\ DOMAIN s = 1..Len(s) /\ Len(s) <= MaxEntries BY <1>1 DEF EngineTyped
<1>3. PICK cached : cached = [k \in 1..Len(s) |-> s[k].engine] OBVIOUS
<1>4. PICK held : held = [u \in Threads \ {t} |-> thread[u].engine] OBVIOUS
<1>5. PICK A : A = {cached[k] : k \in 1..Len(s)} OBVIOUS
<1>6. PICK B : B = {held[u] : u \in Threads \ {t}} OBVIOUS
<1>7. /\ IsFiniteSet(Threads) /\ IsFiniteSet(Instances) /\ MaxEntries \in Nat
      /\ Cardinality(Instances) >= Cardinality(Threads) + MaxEntries
      /\ None \notin Instances
  BY EngineSizes DEF Engines!EngineAssumption
<1>8. IsFiniteSet(Threads \ {t}) /\ Cardinality(Threads \ {t}) = Cardinality(Threads) - 1
  BY <1>7, FS_RemoveElement
<1>9. Cardinality(Threads) \in Nat /\ Cardinality(Instances) \in Nat
  BY <1>7, FS_CardinalityType
<1>10. IsFiniteSet(1..Len(s)) /\ Cardinality(1..Len(s)) = Len(s) BY <1>2, FS_Interval
<1>11. IsFiniteSet(A) /\ Cardinality(A) \in Nat /\ Cardinality(A) <= Len(s)
  BY <1>3, <1>5, <1>10, ImageSize
<1>12. IsFiniteSet(B) /\ Cardinality(B) \in Nat /\ Cardinality(B) <= Cardinality(Threads \ {t})
  BY <1>4, <1>6, <1>8, ImageSize
<1>13. Cardinality(Instances) > Cardinality(A) + Cardinality(B)
  BY <1>2, <1>7, <1>8, <1>9, <1>11, <1>12
<1>14. PICK i \in Instances : i \notin A \cup B BY <1>7, <1>11, <1>12, <1>13, Spare
<1>15. i # None BY <1>7, <1>14
<1>16. \A u \in Threads : thread[u].engine # i BY <1>4, <1>6, <1>14, <1>15
<1>17. \A k \in DOMAIN s : s[k].engine # i BY <1>2, <1>3, <1>5, <1>14
<1>18. \A e \in Engines!Range(policies) : e.engine # i BY <1>1, <1>17 DEF Engines!Range
<1>19. QED BY <1>14, <1>16, <1>18 DEF Engines!UnusedInstances

\* A miss: it waits for the lock of the loads of that hash.
LEMMA MissKeeps ==
  ASSUME Engines!EngineAssumption, EngineInv, NEW t \in Threads, NEW h \in Hashes,
         Engines!Ask(t, h), Engines!Cached(h) = {}
  PROVE  EngineInv'
<1>1. EngineTyped BY DEF EngineInv
<1>2. ~HasHash(policies, h) BY CachedIs DEF HasHash
<1>3. thread[t].pc \in {"idle", "ready"} /\ thread[t].slot = None
  BY DEF Engines!Ask, EngineInv, Holds, Having
<1>4. PICK l : l = IF inflight[h] = None THEN CHOOSE x \in Engines!UnusedLocks : TRUE
                   ELSE inflight[h]
  OBVIOUS
<1>5. l \in Locks /\ (inflight[h] # None => l = inflight[h])
  <2>1. CASE inflight[h] = None
    <3>1. \E x \in Engines!UnusedLocks : x # None BY <1>1, <1>3, <2>1, FreeLock
    <3>2. l \in Engines!UnusedLocks BY <1>4, <2>1, <3>1
    <3>3. QED BY <2>1, <3>2 DEF Engines!UnusedLocks
  <2>2. CASE inflight[h] # None BY <1>1, <1>4, <2>2 DEF EngineTyped
  <2>3. QED BY <2>1, <2>2
<1>6. inflight' = [inflight EXCEPT ![h] = l] BY <1>4 DEF Engines!Ask
<1>7. inflight'[h] = l /\ inflight' \in [Hashes -> Locks \cup {None}]
      /\ \A g \in Hashes : g # h => inflight'[g] = inflight[g]
  BY <1>1, <1>5, <1>6 DEF EngineTyped
<1>8. PICK r : r = [Engines!Idle EXCEPT !.pc = "waiting", !.hash = h, !.slot = l] OBVIOUS
<1>9. r = [pc |-> "waiting", hash |-> h, slot |-> l, engine |-> None, result |-> None]
  BY <1>8 DEF Engines!Idle
<1>10. r \in ThreadSet BY <1>5, <1>9 DEF ThreadSet, Loads
<1>11. thread' = [thread EXCEPT ![t] = [Engines!Idle EXCEPT !.pc = "waiting", !.hash = h, !.slot = inflight'[h]]]
  BY DEF Engines!Ask
<1>12. thread' = [thread EXCEPT ![t] = r] BY <1>7, <1>8, <1>11, Zenon
<1>13. /\ policies' = policies /\ instance' = instance
       /\ evicted' = Engines!StillUsed(evicted)
  BY DEF Engines!Ask
<1>14. Holds(t, r, instance) BY <1>5, <1>9 DEF Holds, Loads, Having, Busy
<1>15. Shares(r, Elements(policies), inflight', evicted)
  BY <1>2, <1>7, <1>9 DEF Shares, Loads, Having, Busy, HasHash
<1>16. ASSUME NEW u \in Threads, thread[u].pc \in Loads, thread[u].hash \notin evicted
       PROVE  inflight'[thread[u].hash] = inflight[thread[u].hash] \/ HasHash(policies, thread[u].hash)
  <2>1. thread[u].hash \in Hashes /\ thread[u].slot \in Locks
    BY <1>16 DEF EngineInv, Holds
  <2>2. thread[u].slot = inflight[thread[u].hash] \/ HasHash(policies, thread[u].hash)
    BY <1>16 DEF EngineInv, Shares, HasHash
  <2>3. None \notin Locks BY DEF Engines!EngineAssumption
  <2>4. QED BY <1>5, <1>7, <2>1, <2>2, <2>3
<1>17. /\ evicted' \subseteq evicted
       /\ \A u \in Threads : thread'[u].hash \notin evicted' => thread'[u].hash \notin evicted
  BY <1>13, StillUsedIs
<1>18. /\ Listed(policies') /\ Len(policies') <= MaxEntries
       /\ Elements(policies') = Elements(policies)
  BY <1>1, <1>13 DEF EngineTyped
<1>19. r.pc # "loading" BY <1>9
<1>20. QED BY <1>7, <1>10, <1>12, <1>13, <1>14, <1>15, <1>16, <1>17, <1>18, <1>19, CacheKeeps

LEMMA AskEngineKeeps ==
  ASSUME Engines!EngineAssumption, EngineInv, NEW t \in Threads, NEW h \in Hashes, Engines!Ask(t, h)
  PROVE  EngineInv'
<1>1. CASE Engines!Cached(h) = {} BY <1>1, MissKeeps
<1>2. CASE Engines!Cached(h) # {}
  <2>1. PICK e \in Engines!Cached(h) : Engines!Adopts(t, h, e.engine) BY <1>2 DEF Engines!Ask
  <2>2. e \in Elements(policies) /\ e.hash = h BY CachedIs
  <2>3. policies' = Engines!Touched(h) /\ inflight' = inflight /\ instance' = instance
        /\ evicted' = Engines!StillUsed(evicted)
    BY <1>2 DEF Engines!Ask
  <2>4. QED BY <2>1, <2>2, <2>3, HitKeeps
<1>3. QED BY <1>1, <1>2

LEMMA AcquireKeeps ==
  ASSUME EngineInv, NEW t \in Threads, Engines!Acquire(t)
  PROVE  EngineInv'
<1>1. EngineTyped BY DEF EngineInv
<1>2. PICK z \in ThreadSet : z = thread[t] BY <1>1 DEF EngineTyped
<1>3. z.pc = "waiting" /\ ~Engines!Taken(z.slot) BY <1>2 DEF Engines!Acquire
<1>4. /\ z.hash \in Hashes /\ z.slot \in Locks /\ z.engine = None
  BY <1>2, <1>3 DEF EngineInv, Holds, Loads
<1>5. inflight' = inflight /\ instance' = instance /\ evicted' = evicted BY DEF Engines!Acquire
<1>6. CASE Engines!Cached(z.hash) # {}
  <2>1. PICK e \in Engines!Cached(z.hash) : Engines!Adopts(t, z.hash, e.engine)
    BY <1>2, <1>6 DEF Engines!Acquire
  <2>2. e \in Elements(policies) /\ e.hash = z.hash BY CachedIs
  <2>3. policies' = Engines!Touched(z.hash) BY <1>2, <1>6 DEF Engines!Acquire
  <2>4. QED BY <1>4, <1>5, <2>1, <2>2, <2>3, HitKeeps
<1>7. CASE Engines!Cached(z.hash) = {}
  <2>1. ~HasHash(policies, z.hash) BY <1>7, CachedIs DEF HasHash
  <2>2. PICK r : r = [z EXCEPT !.pc = "loading"] OBVIOUS
  <2>3. r \in ThreadSet /\ r.pc = "loading" /\ r.hash = z.hash /\ r.slot = z.slot /\ r.engine = None
    BY <1>4, <2>2 DEF ThreadSet, Loads
  <2>4. thread' = [thread EXCEPT ![t] = r] /\ policies' = policies
    BY <1>2, <1>7, <2>2 DEF Engines!Acquire
  <2>5. Holds(t, r, instance) BY <1>4, <2>3 DEF Holds, Loads, Having, Busy
  <2>6. Shares(z, Elements(policies), inflight, evicted) BY <1>2 DEF EngineInv
  <2>7. Shares(r, Elements(policies), inflight, evicted)
    BY <1>3, <2>1, <2>3, <2>6 DEF Shares, Loads, Having, Busy, HasHash
  <2>8. \A u \in Threads : thread[u].pc = "loading" => thread[u].slot # r.slot
    BY <1>3, <2>3 DEF Engines!Taken
  <2>9. /\ Listed(policies') /\ Len(policies') <= MaxEntries
        /\ Elements(policies') = Elements(policies)
        /\ inflight' \in [Hashes -> Locks \cup {None}]
    BY <1>1, <1>5, <2>4 DEF EngineTyped
  <2>10. QED BY <1>5, <2>3, <2>4, <2>5, <2>7, <2>8, <2>9, CacheKeeps
<1>8. QED BY <1>6, <1>7

\* A load that fails, and a verdict that was used.
LEMMA LetGoKeeps ==
  ASSUME EngineInv, NEW t \in Threads,
         Engines!LoadFails(t) \/ \E pc \in {"idle", "ready"} : Engines!Use(t, pc)
  PROVE  EngineInv'
<1>1. EngineTyped BY DEF EngineInv
<1>2. PICK z \in ThreadSet : z = thread[t] BY <1>1 DEF EngineTyped
<1>3. Holds(t, z, instance) /\ Shares(z, Elements(policies), inflight, evicted)
  BY <1>2 DEF EngineInv
<1>4. PICK r : /\ thread' = [thread EXCEPT ![t] = r]
               /\ \/ r = Engines!Idle
                  \/ z.pc = "answered" /\ r = [z EXCEPT !.pc = "ready", !.result = None]
  <2>1. CASE Engines!LoadFails(t) BY <2>1 DEF Engines!LoadFails
  <2>2. CASE \E pc \in {"idle", "ready"} : Engines!Use(t, pc)
    <3>1. PICK pc \in {"idle", "ready"} : Engines!Use(t, pc) BY <2>2
    <3>2. PICK r : r = [z EXCEPT !.pc = pc, !.result = None] OBVIOUS
    <3>3. z.pc = "answered" /\ thread' = [thread EXCEPT ![t] = IF pc = "ready" THEN r ELSE Engines!Idle]
      BY <1>2, <3>1, <3>2, Zenon DEF Engines!Use
    <3>4. CASE pc = "ready" BY <3>2, <3>3, <3>4
    <3>5. CASE pc # "ready" BY <3>3, <3>5
    <3>6. QED BY <3>4, <3>5
  <2>3. QED BY <2>1, <2>2
<1>5. /\ policies' = policies /\ inflight' = inflight /\ instance' = instance
      /\ evicted' = Engines!StillUsed(evicted)
  BY DEF Engines!LoadFails, Engines!Use
<1>6. r \in ThreadSet /\ Holds(t, r, instance) /\ Shares(r, Elements(policies), inflight, evicted)
      /\ r.pc # "loading"
  <2>1. CASE r = Engines!Idle BY <2>1, NobodyIs DEF Holds, Shares, Loads, Having, Busy
  <2>2. CASE z.pc = "answered" /\ r = [z EXCEPT !.pc = "ready", !.result = None]
    <3>1. r \in ThreadSet /\ r.pc = "ready" /\ r.hash = z.hash /\ r.slot = z.slot /\ r.engine = z.engine
      BY <2>2 DEF ThreadSet, Having
    <3>2. QED BY <1>3, <2>2, <3>1 DEF Holds, Shares, Loads, Having, Busy
  <2>3. QED BY <1>4, <2>1, <2>2
<1>7. /\ evicted' \subseteq evicted
      /\ \A u \in Threads : thread'[u].hash \notin evicted' => thread'[u].hash \notin evicted
  BY <1>5, StillUsedIs
<1>8. /\ Listed(policies') /\ Len(policies') <= MaxEntries
      /\ Elements(policies') = Elements(policies)
      /\ inflight' \in [Hashes -> Locks \cup {None}]
  BY <1>1, <1>5 DEF EngineTyped
<1>9. QED BY <1>4, <1>5, <1>6, <1>7, <1>8, CacheKeeps

\* The load: an instance nobody had becomes the one of its hash, and whoever else
\* waits for the lock finds it.
LEMMA LoadedKeeps ==
  ASSUME Engines!EngineAssumption, EngineInv, NEW t \in Threads, Engines!Loaded(t)
  PROVE  EngineInv'
<1>1. EngineTyped BY DEF EngineInv
<1>2. PICK h : h = thread[t].hash OBVIOUS
<1>3. thread[t].pc = "loading" /\ h \in Hashes /\ thread[t].slot \in Locks /\ thread[t].engine = None
  BY <1>2 DEF EngineInv, Holds, Loads, Engines!Loaded
<1>4. PICK i : i = CHOOSE x \in Engines!UnusedInstances : TRUE OBVIOUS
<1>5. i \in Engines!UnusedInstances BY <1>1, <1>3, <1>4, FreeInstance
<1>6. /\ i \in Instances /\ \A u \in Threads : thread[u].engine # i
      /\ \A e \in Elements(policies) : e.engine # i
  <2>1. Engines!Range(policies) = Elements(policies) BY DEF Engines!Range, Elements
  <2>2. QED BY <1>5, <2>1 DEF Engines!UnusedInstances
<1>7. PICK m : m = Engines!NewInstance(h) OBVIOUS
<1>8. /\ instance' = [instance EXCEPT ![i] = m] /\ policies' = Engines!Stored(h, i)
      /\ inflight' = [inflight EXCEPT ![h] = None] /\ Engines!Adopts(t, h, i)
  BY <1>2, <1>4, <1>7 DEF Engines!Loaded
<1>9. MaxEntries \in Nat \ {0} /\ MaxHeap \in Nat /\ None \notin Locks /\ None \notin Threads
  BY DEF Engines!EngineAssumption
<1>10. m \in InstanceSet /\ m.hash = h /\ m.heap = 0
  BY <1>3, <1>7, <1>9 DEF Engines!NewInstance, InstanceSet
<1>11. instance' \in [Instances -> InstanceSet] /\ instance'[i] = m
       /\ \A x \in Instances : x # i => instance'[x] = instance[x]
  BY <1>1, <1>6, <1>8, <1>10 DEF EngineTyped
<1>12. PICK r \in ThreadSet : /\ thread' = [thread EXCEPT ![t] = r] /\ r.pc = "ready"
                              /\ r.hash = h /\ r.engine = i /\ r.slot = None
  BY <1>1, <1>3, <1>6, <1>8, ReadyIs
<1>13. thread' \in [Threads -> ThreadSet] /\ thread'[t] = r
       /\ \A u \in Threads : u # t => thread'[u] = thread[u]
  BY <1>1, <1>12 DEF EngineTyped
<1>14. PICK e \in Entry : e = [hash |-> h, engine |-> i] BY <1>3, <1>6 DEF Entry
<1>15. PICK s : s = policies' OBVIOUS
<1>16. /\ Listed(s) /\ Len(s) <= MaxEntries /\ e \in Elements(s)
       /\ \A x \in Elements(s) : x = e \/ (x \in Elements(policies) /\ x.hash # h)
  BY <1>1, <1>3, <1>6, <1>8, <1>9, <1>14, <1>15, StoredIs DEF EngineTyped
<1>17. inflight' \in [Hashes -> Locks \cup {None}] /\ inflight'[h] = None
       /\ \A g \in Hashes : g # h => inflight'[g] = inflight[g]
  BY <1>1, <1>3, <1>8 DEF EngineTyped
<1>18. PICK gone : gone = evicted \cup ({x.hash : x \in Engines!Range(policies)} \ {x.hash : x \in Engines!Range(policies')})
  OBVIOUS
<1>19. evicted' = Engines!StillUsed(gone) BY <1>18, Zenon DEF Engines!Loaded
<1>20. /\ evicted \subseteq gone
       /\ \A x \in Elements(policies) : x.hash \in gone \/ \E y \in Elements(s) : y.hash = x.hash
  <2>1. Engines!Range(policies) = Elements(policies) BY DEF Engines!Range, Elements
  <2>2. Engines!Range(policies') = Elements(s) BY <1>15 DEF Engines!Range, Elements
  <2>3. gone = evicted \cup ({x.hash : x \in Elements(policies)} \ {x.hash : x \in Elements(s)})
    BY <1>18, <2>1, <2>2
  <2>4. QED BY <2>3
<1>21. evicted' \subseteq Hashes
  <2>1. \A x \in Elements(policies) : x.hash \in Hashes BY <1>1, EntriesAre DEF EngineTyped, Entry
  <2>2. \A x \in Engines!Range(policies) : x.hash \in Hashes BY <2>1 DEF Engines!Range, Elements
  <2>3. gone \subseteq Hashes BY <1>1, <1>18, <2>2 DEF EngineTyped
  <2>4. QED BY <1>19, <2>3, StillUsedIs
<1>22. \A u \in Threads : thread'[u].hash \notin evicted' => thread'[u].hash \notin gone
  BY <1>19, StillUsedIs
<1>23. EngineTyped' BY <1>11, <1>13, <1>15, <1>16, <1>17, <1>21 DEF EngineTyped, Listed, Single
<1>24. \A x \in Elements(policies)' : instance'[x.engine].hash = x.hash
  <2>1. \A x \in Elements(policies) : x.engine \in Instances /\ instance[x.engine].hash = x.hash
    BY <1>1, EntriesAre DEF EngineTyped, EngineInv, Entry
  <2>2. \A x \in Elements(policies) : instance'[x.engine].hash = x.hash BY <1>6, <1>11, <2>1
  <2>3. instance'[e.engine].hash = e.hash BY <1>10, <1>11, <1>14
  <2>4. \A x \in Elements(s) : instance'[x.engine].hash = x.hash BY <1>16, <2>2, <2>3
  <2>5. QED BY <1>15, <2>4 DEF Elements
<1>25. \A x \in Instances : instance'[x].heap <= 2 BY <1>10, <1>11 DEF EngineInv
<1>26. ASSUME NEW u \in Threads PROVE Holds(u, thread'[u], instance')
  <2>1. CASE u = t
    BY <1>3, <1>6, <1>10, <1>11, <1>12, <1>13, <2>1 DEF Holds, Having, Loads, Busy
  <2>2. CASE u # t
    <3>1. Holds(u, thread[u], instance) /\ thread'[u] = thread[u] BY <1>13, <2>2 DEF EngineInv
    <3>2. thread[u].pc \in Having => instance'[thread[u].engine] = instance[thread[u].engine]
      BY <1>6, <1>11, <3>1 DEF Holds
    <3>3. QED BY <3>1, <3>2 DEF Holds, Having, Busy
  <2>3. QED BY <2>1, <2>2
<1>27. ASSUME NEW u \in Threads PROVE Shares(thread'[u], Elements(s), inflight', evicted')
  <2>1. SUFFICES ASSUME thread'[u].hash \notin gone
                 PROVE  Shares(thread'[u], Elements(s), inflight', {})
    BY <1>22 DEF Shares
  <2>2. CASE u = t
    BY <1>12, <1>13, <1>14, <1>16, <2>2 DEF Shares, Loads
  <2>3. CASE u # t
    <3>1. PICK z \in ThreadSet : z = thread[u] /\ z = thread'[u]
      BY <1>1, <1>13, <2>3 DEF EngineTyped
    <3>2. Holds(u, z, instance) /\ Shares(z, Elements(policies), inflight, evicted)
      BY <3>1 DEF EngineInv
    <3>3. z.hash \notin gone /\ z.hash \notin evicted BY <1>20, <2>1, <3>1
    <3>4. \A x \in Elements(policies) : x.hash = z.hash => \E y \in Elements(s) : y.hash = z.hash
      BY <1>20, <3>3
    <3>5. Shares(thread[t], Elements(policies), inflight, evicted) BY DEF EngineInv
    <3>6. CASE z.hash = h
      <4>1. thread[t].slot = inflight[h] /\ \A x \in Elements(policies) : x.hash # h
        BY <1>2, <1>3, <3>3, <3>5, <3>6 DEF Shares, Loads
      <4>2. z.pc \notin Having BY <3>2, <3>3, <3>6, <4>1 DEF Shares
      <4>3. z.pc # "loading"
        <5>1. SUFFICES ASSUME z.pc = "loading" PROVE FALSE OBVIOUS
        <5>2. z.slot = inflight[h] BY <3>2, <3>3, <3>6, <4>1, <5>1 DEF Shares, Loads
        <5>3. QED BY <1>3, <2>3, <3>1, <4>1, <5>1, <5>2 DEF EngineInv
      <4>4. \E y \in Elements(s) : y.hash = z.hash BY <1>14, <1>16, <3>6
      <4>5. QED BY <3>1, <4>2, <4>3, <4>4 DEF Shares
    <3>7. CASE z.hash # h
      <4>1. z.pc \in Loads => inflight'[z.hash] = inflight[z.hash]
        BY <1>17, <3>2, <3>7 DEF Holds
      <4>2. \A x \in Elements(s) : x.hash = z.hash => x \in Elements(policies)
        BY <1>14, <1>16, <3>7
      <4>3. z.pc \in Having => \E x \in Elements(s) : x.hash = z.hash /\ x.engine = z.engine
        <5>1. ASSUME z.pc \in Having PROVE \E x \in Elements(s) : x.hash = z.hash /\ x.engine = z.engine
          <6>1. PICK x \in Elements(policies) : x.hash = z.hash /\ x.engine = z.engine
            BY <3>2, <3>3, <5>1 DEF Shares
          <6>2. PICK y \in Elements(s) : y.hash = z.hash BY <3>4, <6>1
          <6>3. y \in Elements(policies) BY <4>2, <6>2
          <6>4. x = y BY <1>1, <6>1, <6>2, <6>3 DEF Elements, EngineTyped, Listed, Single
          <6>5. QED BY <6>1, <6>2, <6>4
        <5>2. QED BY <5>1
      <4>4. z.pc \in Loads => z.slot = inflight'[z.hash] \/ \E x \in Elements(s) : x.hash = z.hash
        BY <3>2, <3>3, <3>4, <4>1 DEF Shares
      <4>5. z.pc = "loading" => \A x \in Elements(s) : x.hash # z.hash
        BY <3>2, <3>3, <4>2 DEF Shares
      <4>6. QED BY <3>1, <4>3, <4>4, <4>5 DEF Shares
    <3>8. QED BY <3>6, <3>7
  <2>4. QED BY <2>2, <2>3
<1>28. \A u, v \in Threads :
         thread'[u].pc = "loading" /\ thread'[v].pc = "loading" /\ thread'[u].slot = thread'[v].slot
           => u = v
  <2>1. \A u \in Threads : thread'[u].pc = "loading" => thread'[u] = thread[u] BY <1>12, <1>13
  <2>2. QED BY <2>1 DEF EngineInv
<1>29. Elements(policies)' = Elements(s) BY <1>15 DEF Elements
<1>30. \A u \in Threads : Shares(thread'[u], Elements(policies)', inflight', evicted')
  BY <1>27, <1>29
<1>31. QED BY <1>23, <1>24, <1>25, <1>26, <1>28, <1>30 DEF EngineInv

-----------------------------------------------------------------------------
(* A decision.                                                                *)

\* The thread's record and its instance's, by name.
LEMMA AtWork ==
  ASSUME EngineInv, NEW t \in Threads, thread[t].pc \in Having
  PROVE  /\ thread[t] \in ThreadSet /\ Holds(t, thread[t], instance)
         /\ thread[t].hash \in Hashes /\ thread[t].engine \in Instances /\ thread[t].slot = None
         /\ instance[thread[t].engine] \in InstanceSet /\ instance[thread[t].engine].heap <= 2
<1>1. EngineTyped /\ Holds(t, thread[t], instance) BY DEF EngineInv
<1>2. thread[t].engine \in Instances /\ thread[t].hash \in Hashes /\ thread[t].slot = None
  BY <1>1 DEF Holds
<1>3. QED BY <1>1, <1>2 DEF EngineTyped, EngineInv

LEMMA GrownIs ==
  ASSUME MaxHeap \in Nat, NEW x \in 0..MaxHeap
  PROVE  Engines!Grown(x) \in 0..MaxHeap /\ Engines!Grown(x) <= x + 1
BY DEF Engines!Grown

LEMMA IntoKeeps ==
  ASSUME EngineInv, None \notin Threads, NEW t \in Threads, NEW pc \in Having, NEW m \in InstanceSet,
         thread[t].pc \in Having, pc # "answered",
         Engines!Into(t, pc, m),
         instance[thread[t].engine].lock \in {None, t},
         m.hash = instance[thread[t].engine].hash, m.heap <= 2,
         pc \in Busy => m.lock = t,
         pc = "writing" => m.heap = 0,
         pc = "evaluating" => m.heap <= 1 /\ m.input = t,
         pc = "reading" => m.output = t
  PROVE  EngineInv'
<1>1. PICK z \in ThreadSet : z = thread[t] /\ z.slot = None BY AtWork
<1>2. PICK r : r = [z EXCEPT !.pc = pc] OBVIOUS
<1>3. r \in ThreadSet /\ r.pc = pc /\ r.hash = z.hash /\ r.engine = z.engine /\ r.slot = None
  BY <1>1, <1>2 DEF ThreadSet
<1>4. thread' = [thread EXCEPT ![t] = r] BY <1>1, <1>2 DEF Engines!Into
<1>5. instance' = [instance EXCEPT ![thread[t].engine] = m] /\ UNCHANGED <<policies, inflight, evicted>>
  BY DEF Engines!Into
<1>6. QED BY <1>1, <1>3, <1>4, <1>5, WorkKeeps

LEMMA EvaluateKeeps ==
  ASSUME Engines!EngineAssumption, EngineInv, NEW t \in Threads,
         Engines!Evaluate(t) \/ Engines!Reset(t) \/ Engines!Write(t) \/ Engines!Eval(t) \/ Engines!Trap(t)
  PROVE  EngineInv'
<1>1. None \notin Threads /\ MaxHeap \in Nat BY DEF Engines!EngineAssumption
<1>2. thread[t].pc \in Having
  BY DEF Engines!Evaluate, Engines!Reset, Engines!Write, Engines!Eval, Engines!Trap, Having, Busy
<1>3. PICK z \in ThreadSet : z = thread[t] /\ Holds(t, z, instance) BY <1>2, AtWork
<1>4. PICK i \in InstanceSet : i = instance[z.engine] /\ i.heap <= 2 BY <1>2, <1>3, AtWork
<1>5. i.heap \in 0..MaxHeap BY DEF InstanceSet
<1>6. CASE Engines!Evaluate(t)
  <2>1. PICK m : m = [i EXCEPT !.lock = t] OBVIOUS
  <2>2. m \in InstanceSet /\ m.hash = i.hash /\ m.heap = i.heap /\ m.lock = t
    BY <2>1 DEF InstanceSet
  <2>3. i.lock = None /\ Engines!Into(t, "resetting", m) BY <1>3, <1>4, <1>6, <2>1 DEF Engines!Evaluate
  <2>4. "resetting" \in Having BY DEF Having, Busy
  <2>5. QED BY <1>1, <1>2, <1>3, <1>4, <2>2, <2>3, <2>4, IntoKeeps
<1>7. CASE Engines!Reset(t)
  <2>1. PICK m : m = [i EXCEPT !.heap = 0] OBVIOUS
  <2>2. m \in InstanceSet /\ m.hash = i.hash /\ m.heap = 0 /\ m.lock = i.lock
    BY <1>1, <2>1 DEF InstanceSet
  <2>3. z.pc = "resetting" /\ Engines!Into(t, "writing", m) BY <1>3, <1>4, <1>7, <2>1 DEF Engines!Reset
  <2>4. i.lock = t BY <1>3, <1>4, <2>3 DEF Holds, Busy
  <2>5. "writing" \in Having BY DEF Having, Busy
  <2>6. QED BY <1>1, <1>2, <1>3, <1>4, <2>2, <2>3, <2>4, <2>5, IntoKeeps
<1>8. CASE Engines!Write(t)
  <2>1. PICK n : n = Engines!Grown(i.heap) OBVIOUS
  <2>2. PICK m : m = [i EXCEPT !.heap = n, !.input = t] OBVIOUS
  <2>3. z.pc = "writing" /\ Engines!Into(t, "evaluating", [i EXCEPT !.heap = Engines!Grown(@), !.input = t])
    BY <1>3, <1>4, <1>8 DEF Engines!Write
  <2>4. Engines!Into(t, "evaluating", m) BY <2>1, <2>2, <2>3
  <2>5. i.lock = t /\ i.heap = 0 BY <1>3, <1>4, <2>3 DEF Holds, Busy
  <2>6. n \in 0..MaxHeap /\ n <= 1 BY <1>1, <1>5, <2>1, <2>5, GrownIs
  <2>7. m \in InstanceSet /\ m.hash = i.hash /\ m.heap <= 1 /\ m.lock = t /\ m.input = t
    BY <2>2, <2>5, <2>6 DEF InstanceSet
  <2>8. "evaluating" \in Having /\ m.heap <= 2 BY <2>2, <2>6 DEF Having, Busy, InstanceSet
  <2>9. QED BY <1>1, <1>2, <1>3, <1>4, <2>4, <2>5, <2>7, <2>8, IntoKeeps
<1>9. CASE Engines!Eval(t)
  <2>1. PICK n : n = Engines!Grown(i.heap) OBVIOUS
  <2>2. PICK m : m = [i EXCEPT !.heap = n, !.output = i.input] OBVIOUS
  <2>3. z.pc = "evaluating" /\ Engines!Into(t, "reading", [i EXCEPT !.heap = Engines!Grown(@), !.output = i.input])
    BY <1>3, <1>4, <1>9 DEF Engines!Eval
  <2>4. Engines!Into(t, "reading", m) BY <2>1, <2>2, <2>3
  <2>5. i.lock = t /\ i.heap <= 1 /\ i.input = t BY <1>3, <1>4, <2>3 DEF Holds, Busy
  <2>6. n \in 0..MaxHeap /\ n <= 2 BY <1>1, <1>5, <2>1, <2>5, GrownIs
  <2>7. m \in InstanceSet /\ m.hash = i.hash /\ m.heap <= 2 /\ m.lock = t /\ m.output = t
    BY <2>2, <2>5, <2>6 DEF InstanceSet
  <2>8. "reading" \in Having BY DEF Having, Busy
  <2>9. QED BY <1>1, <1>2, <1>3, <1>4, <2>4, <2>5, <2>7, <2>8, IntoKeeps
<1>10. CASE Engines!Trap(t)
  <2>1. PICK m : m = [i EXCEPT !.lock = None, !.input = None, !.output = None] OBVIOUS
  <2>2. m \in InstanceSet /\ m.hash = i.hash /\ m.heap = i.heap BY <2>1 DEF InstanceSet
  <2>3. z.pc = "evaluating" /\ Engines!Into(t, "ready", m)
    BY <1>3, <1>4, <1>10, <2>1 DEF Engines!Trap, Engines!Released
  <2>4. i.lock = t BY <1>3, <1>4, <2>3 DEF Holds, Busy
  <2>5. "ready" \in Having /\ "ready" \notin Busy BY DEF Having, Busy
  <2>6. QED BY <1>1, <1>2, <1>3, <1>4, <2>2, <2>3, <2>4, <2>5, IntoKeeps
<1>11. QED BY <1>6, <1>7, <1>8, <1>9, <1>10

LEMMA ReadKeeps ==
  ASSUME Engines!EngineAssumption, EngineInv, NEW t \in Threads, Engines!Read(t)
  PROVE  EngineInv'
<1>1. None \notin Threads BY DEF Engines!EngineAssumption
<1>2. thread[t].pc \in Having BY DEF Engines!Read, Having, Busy
<1>3. PICK z \in ThreadSet : z = thread[t] /\ Holds(t, z, instance) /\ z.slot = None
  BY <1>2, AtWork
<1>4. PICK i \in InstanceSet : i = instance[z.engine] /\ i.heap <= 2 BY <1>2, <1>3, AtWork
<1>5. z.pc = "reading" BY <1>3 DEF Engines!Read
<1>6. i.lock = t /\ i.output = t BY <1>3, <1>4, <1>5 DEF Holds, Busy
<1>7. PICK m : m = [i EXCEPT !.lock = None, !.input = None, !.output = None] OBVIOUS
<1>8. m \in InstanceSet /\ m.hash = i.hash /\ m.heap = i.heap BY <1>7 DEF InstanceSet
<1>9. PICK r : r = [z EXCEPT !.pc = "answered", !.result = t] OBVIOUS
<1>10. /\ r \in ThreadSet /\ r.pc = "answered" /\ r.hash = z.hash /\ r.engine = z.engine
       /\ r.slot = None /\ r.result = t
  BY <1>3, <1>9 DEF ThreadSet, Having
<1>11. thread' = [thread EXCEPT ![t].pc = "answered", ![t].result = i.output]
  BY <1>3, <1>4 DEF Engines!Read
<1>12. thread' = [thread EXCEPT ![t] = r]
  <2>1. [thread EXCEPT ![t].pc = "answered", ![t].result = t] = [thread EXCEPT ![t] = r]
    BY <1>3, <1>9 DEF EngineInv, EngineTyped
  <2>2. QED BY <1>6, <1>11, <2>1
<1>13. instance' = [instance EXCEPT ![thread[t].engine] = m] /\ UNCHANGED <<policies, inflight, evicted>>
  BY <1>3, <1>4, <1>7 DEF Engines!Read, Engines!Released
<1>14. "answered" \in Having /\ "answered" \notin Busy BY DEF Having, Busy
<1>15. /\ r.hash = thread[t].hash /\ r.engine = thread[t].engine
       /\ instance[thread[t].engine].lock \in {None, t}
       /\ m.hash = instance[thread[t].engine].hash /\ m.heap <= 2
  BY <1>3, <1>4, <1>6, <1>8, <1>10
<1>16. r.pc \in Having /\ r.pc \notin Busy /\ r.pc \notin {"writing", "evaluating", "reading"}
  BY <1>10, <1>14
<1>17. QED BY <1>1, <1>2, <1>8, <1>10, <1>12, <1>13, <1>15, <1>16, WorkKeeps

-----------------------------------------------------------------------------
(* Every behaviour.                                                           *)

LEMMA EngineInit == ASSUME Engines!EngineAssumption PROVE Engines!Init => EngineInv
<1>1. SUFFICES ASSUME Engines!Init PROVE EngineInv OBVIOUS
<1>2. /\ policies = <<>> /\ inflight = [h \in Hashes |-> None] /\ evicted = {}
      /\ instance = [i \in Instances |-> Engines!NewInstance(None)]
      /\ thread = [t \in Threads |-> Engines!Idle]
  BY <1>1 DEF Engines!Init
<1>3. MaxEntries \in Nat \ {0} /\ MaxHeap \in Nat BY DEF Engines!EngineAssumption
<1>4. policies \in Seq(Entry) /\ Len(policies) = 0 /\ DOMAIN policies = {} BY <1>2
<1>5. Elements(policies) = {} /\ Single(policies) BY <1>4 DEF Elements, Single
<1>6. PICK m : m = Engines!NewInstance(None) OBVIOUS
<1>7. m \in InstanceSet /\ m.heap = 0 BY <1>3, <1>6 DEF Engines!NewInstance, InstanceSet
<1>8. instance \in [Instances -> InstanceSet] /\ \A i \in Instances : instance[i].heap = 0
  BY <1>2, <1>6, <1>7
<1>9. PICK z : z = Engines!Idle OBVIOUS
<1>10. z \in ThreadSet
       /\ z = [pc |-> "idle", hash |-> None, slot |-> None, engine |-> None, result |-> None]
  BY <1>9, NobodyIs
<1>11. thread \in [Threads -> ThreadSet] /\ \A t \in Threads : thread[t] = z
  BY <1>2, <1>9, <1>10
<1>12. EngineTyped BY <1>2, <1>3, <1>4, <1>5, <1>8, <1>11 DEF EngineTyped, Listed
<1>13. \A t \in Threads : Holds(t, thread[t], instance) /\ Shares(thread[t], Elements(policies), inflight, evicted)
  BY <1>10, <1>11 DEF Holds, Shares, Having, Busy, Loads
<1>14. \A t \in Threads : thread[t].pc # "loading" BY <1>10, <1>11
<1>15. QED BY <1>5, <1>8, <1>12, <1>13, <1>14 DEF EngineInv

LEMMA EngineNext == Engines!EngineAssumption /\ EngineInv /\ Engines!Next => EngineInv'
<1>1. SUFFICES ASSUME Engines!EngineAssumption, EngineInv, Engines!Next PROVE EngineInv' OBVIOUS
<1>2. PICK t \in Threads :
        \/ \E h \in Hashes : Engines!Ask(t, h)
        \/ Engines!Acquire(t) \/ Engines!Loaded(t) \/ Engines!LoadFails(t)
        \/ Engines!Evaluate(t) \/ Engines!Reset(t) \/ Engines!Write(t) \/ Engines!Eval(t)
        \/ Engines!Trap(t) \/ Engines!Read(t)
        \/ \E pc \in {"idle", "ready"} : Engines!Use(t, pc)
  BY <1>1 DEF Engines!Next
<1>3. CASE \E h \in Hashes : Engines!Ask(t, h) BY <1>1, <1>3, AskEngineKeeps
<1>4. CASE Engines!Acquire(t) BY <1>1, <1>4, AcquireKeeps
<1>5. CASE Engines!Loaded(t) BY <1>1, <1>5, LoadedKeeps
<1>6. CASE Engines!LoadFails(t) \/ \E pc \in {"idle", "ready"} : Engines!Use(t, pc)
  BY <1>1, <1>6, LetGoKeeps
<1>7. CASE Engines!Evaluate(t) \/ Engines!Reset(t) \/ Engines!Write(t) \/ Engines!Eval(t) \/ Engines!Trap(t)
  BY <1>1, <1>7, EvaluateKeeps
<1>8. CASE Engines!Read(t) BY <1>1, <1>8, ReadKeeps
<1>9. QED BY <1>2, <1>3, <1>4, <1>5, <1>6, <1>7, <1>8

LEMMA EngineStutters == EngineInv /\ UNCHANGED engineVars => EngineInv'
BY DEF EngineInv, EngineTyped, engineVars, Elements, Listed, Single, Holds, Shares

LEMMA EngineBox == EngineInv /\ [RowsNext]_rowsVars /\ Engines!EngineAssumption => EngineInv'
<1>1. SUFFICES ASSUME EngineInv, [RowsNext]_rowsVars, Engines!EngineAssumption PROVE EngineInv' OBVIOUS
<1>2. Engines!Next \/ UNCHANGED engineVars BY <1>1 DEF RowsNext, rowsVars
<1>3. QED BY <1>1, <1>2, EngineNext, EngineStutters

\* What the invariant says, of one hash.
LEMMA EnginesOfOne ==
  ASSUME Engines!EngineAssumption, EngineInv, NEW h \in Hashes \ evicted,
         NEW i \in Instances \ Engines!UnusedInstances, instance[i].hash = h
  PROVE  \E e \in Elements(policies) : e.hash = h /\ e.engine = i
<1>1. None \notin Instances BY DEF Engines!EngineAssumption
<1>2. \/ \E e \in Elements(policies) : e.engine = i
      \/ \E t \in Threads : thread[t].engine = i
  BY DEF Engines!UnusedInstances, Engines!Range, Elements
<1>3. CASE \E e \in Elements(policies) : e.engine = i BY <1>3 DEF EngineInv
<1>4. CASE \E t \in Threads : thread[t].engine = i
  <2>1. PICK t \in Threads : thread[t].engine = i BY <1>4
  <2>2. PICK z \in ThreadSet : z = thread[t] BY DEF EngineInv, EngineTyped
  <2>3. Holds(t, z, instance) /\ Shares(z, Elements(policies), inflight, evicted)
    BY <2>2 DEF EngineInv
  <2>4. z.pc \in Having BY <1>1, <2>1, <2>2, <2>3 DEF Holds, ThreadSet
  <2>5. z.hash = h BY <2>1, <2>2, <2>3, <2>4 DEF Holds
  <2>6. QED BY <2>1, <2>2, <2>3, <2>4, <2>5 DEF Shares
<1>5. QED BY <1>2, <1>3, <1>4

LEMMA OneLoad ==
  ASSUME EngineInv, NEW h \in Hashes \ evicted, NEW t \in Threads, NEW u \in Threads,
         thread[t].pc = "loading", thread[t].hash = h, thread[u].pc = "loading", thread[u].hash = h
  PROVE  t = u
<1>1. /\ Shares(thread[t], Elements(policies), inflight, evicted)
      /\ Shares(thread[u], Elements(policies), inflight, evicted)
  BY DEF EngineInv
<1>2. thread[t].slot = inflight[h] /\ thread[u].slot = inflight[h] BY <1>1 DEF Shares, Loads
<1>3. QED BY <1>2 DEF EngineInv

\* A set no two of whose elements differ has at most one.
LEMMA AtMostOne ==
  ASSUME NEW S, \A x, y \in S : x = y
  PROVE  Cardinality(S) <= 1
<1>1. CASE S = {} BY <1>1, FS_EmptySet
<1>2. CASE S # {}
  <2>1. PICK x : x \in S BY <1>2
  <2>2. S = {x} BY <2>1
  <2>3. QED BY <2>2, FS_Singleton
<1>3. QED BY <1>1, <1>2

LEMMA EnginesPromise ==
  Engines!EngineAssumption /\ EngineInv => Engines!OneInstance /\ Engines!OwnAnswers
<1>1. SUFFICES ASSUME Engines!EngineAssumption, EngineInv
               PROVE  Engines!OneInstance /\ Engines!OwnAnswers
  OBVIOUS
<1>2. ASSUME NEW h \in Hashes \ evicted
      PROVE  Cardinality({i \in Instances \ Engines!UnusedInstances : instance[i].hash = h}) <= 1
  <2>1. PICK S : S = {i \in Instances \ Engines!UnusedInstances : instance[i].hash = h} OBVIOUS
  <2>2. \A i, j \in S : i = j
    <3>1. ASSUME NEW i \in S, NEW j \in S PROVE i = j
      <4>1. PICK e \in Elements(policies) : e.hash = h /\ e.engine = i
        BY <1>1, <1>2, <2>1, EnginesOfOne
      <4>2. PICK f \in Elements(policies) : f.hash = h /\ f.engine = j
        BY <1>1, <1>2, <2>1, EnginesOfOne
      <4>3. e = f BY <1>1, <4>1, <4>2 DEF EngineInv, EngineTyped, Listed, Single, Elements
      <4>4. QED BY <4>1, <4>2, <4>3
    <3>2. QED BY <3>1
  <2>3. QED BY <2>1, <2>2, AtMostOne
<1>3. ASSUME NEW h \in Hashes \ evicted
      PROVE  Cardinality({t \in Threads : thread[t].pc = "loading" /\ thread[t].hash = h}) <= 1
  <2>1. PICK S : S = {t \in Threads : thread[t].pc = "loading" /\ thread[t].hash = h} OBVIOUS
  <2>2. \A t, u \in S : t = u BY <1>1, <1>3, <2>1, OneLoad
  <2>3. QED BY <2>1, <2>2, AtMostOne
<1>4. Engines!OneInstance BY <1>2, <1>3, EngineSizes DEF Engines!OneInstance
<1>5. Engines!OwnAnswers
  <2>1. ASSUME NEW t \in Threads, thread[t].pc = "answered"
        PROVE  thread[t].result = t /\ instance[thread[t].engine].hash = thread[t].hash
    BY <1>1, <2>1 DEF EngineInv, Holds, Having
  <2>2. QED BY <1>1, <2>1 DEF Engines!OwnAnswers, EngineInv
<1>6. QED BY <1>4, <1>5

LEMMA EnginesStay == RowsSpec => []EngineInv
<1>1. Engines!EngineAssumption BY RowsAssumption
<1>2. RowsInit => EngineInv BY <1>1, EngineInit DEF RowsInit
<1>3. EngineInv /\ [RowsNext]_rowsVars => EngineInv' BY <1>1, EngineBox
<1>4. QED BY <1>2, <1>3, PTL DEF RowsSpec

\* However many runs ask for a compiled policy at once, and whatever loads fail or
\* decisions trap, one instance of it is loaded and shared until the cache runs out
\* of room; each decision is of its own input, by the policy that was asked for.
THEOREM EnginesStayShared == RowsSpec => []EnginesAreShared
<1>1. Engines!EngineAssumption BY RowsAssumption
<1>2. EngineInv => EnginesAreShared BY <1>1, EnginesPromise DEF EnginesAreShared
<1>3. QED BY <1>2, EnginesStay, PTL
=============================================================================
