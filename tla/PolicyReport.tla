---------------------------- MODULE PolicyReport ----------------------------
(* What is read off a loaded document without a call being decided: the       *)
(* matrix of roles and tools an auditor gets (matrix.py), and what the        *)
(* analyzer says of the default role and of rules on tools that do not exist  *)
(* (analyzer.py, over a resolved policy set).                                 *)
EXTENDS PolicySets

GrantModes == {"allow", "approval_required"}

-----------------------------------------------------------------------------
(* The matrix.                                                               *)

\* The columns: the roles of the loaded document.
Columns == DOMAIN PolicySet

\* The rows: what some role has a rule for.
Rows == {t \in Tools : \E n \in Columns : PolicySet[n].tools[t] # None}

Denied == [mode |-> "deny", text |-> {}]

\* The conditions are the role's and the rule's; a deny is shown without any.
CellFor(n, rule) ==
  IF rule.mode = "deny" THEN Denied
  ELSE [mode |-> rule.mode, text |-> PolicySet[n].constraints \cup rule.constraints]

Cell(n, t) == CellFor(n, ToolPolicy(PolicySet[n], t))

\* (Mutant) The fallback is said to be that of gates as well.
DefaultCellOfAll(n, t) == CellFor(n, PolicySet[n].default)

\* What the role gets for what no row is about.
DefaultCell(n, t) ==
  IF t \in Reserved THEN Denied ELSE CellFor(n, PolicySet[n].default)

-----------------------------------------------------------------------------
(* What anybody reaches under a role name the document does not know.        *)

Named == Columns \ {Default}

\* The role that is the default's policy because none is named so.
Alias == IF Default \in Concrete THEN None ELSE Fallback

\* (Mutant) The role the default is an alias of is one that grants it too.
OthersWithAlias == Named

Others == Named \ {Alias}

Lists(n, t) == PolicySet[n].tools[t] # None

GrantsTool(n, t) == Lists(n, t) /\ PolicySet[n].tools[t].mode \in GrantModes

GrantsUnlisted(n) == PolicySet[n].default.mode \in GrantModes

\* The tools, and the fallback, that permissive-default is reported for.
ExposedTools ==
  {t \in Tools : /\ Named # {}
                 /\ GrantsTool(Default, t)
                 /\ \A n \in Others : ~GrantsTool(n, t)}

ExposedDefault ==
  Named # {} /\ GrantsUnlisted(Default) /\ \A n \in Others : ~GrantsUnlisted(n)

-----------------------------------------------------------------------------
(* A rule on a tool the manifest lacks: the real one falls to the default.   *)

Strictness(mode) ==
  CASE mode = "allow" -> 0 [] mode = "approval_required" -> 1 [] mode = "deny" -> 2

\* (Mutant) Only the modes are compared.
SeverityByMode(rule, default) ==
  CASE Strictness(rule.mode) > Strictness(default.mode) -> "error"
    [] Strictness(rule.mode) <= Strictness(default.mode) /\ rule.mode = "deny" -> "info"
    [] OTHER -> "warning"

ResolvedSeverity(rule, default) ==
  IF \/ Strictness(rule.mode) > Strictness(default.mode)
     \/ rule.mode # "deny" /\ default.mode # "deny" /\ rule.constraints # {}
  THEN "error" ELSE IF rule.mode = "deny" THEN "info" ELSE "warning"

-----------------------------------------------------------------------------
(* What the reports are worth.                                               *)

Shown(n, t) == IF t \in Rows THEN Cell(n, t) ELSE DefaultCell(n, t)

\* The matrix shows what the engines decide: under each role, a tool is let
\* through in the way its cell says exactly when the cell's conditions hold,
\* whether it has a row or not (matrix.py: "never overstate").
MatrixIsWhatRuns ==
  Loads =>
    \A n \in Columns, t \in Tools, call \in Calls :
      Evaluate(n, t, call) =
        IF Shown(n, t).mode # "deny" /\ Holds(Shown(n, t).text, <<n, call>>)
        THEN Shown(n, t).mode ELSE "deny"

\* Where the exposure lint is silent, nobody gets at a tool by claiming a role that
\* does not exist unless an authored role, other than the one that stands in for
\* the default, grants it too.  One case it does not see: the default grants what
\* it does not list, and every role that does so as well denies this tool by name
\* (check_default_role_exposure).
SilentMeansGranted ==
  (Loads /\ Named # {} /\ ~ExposedDefault) =>
    \A t \in Tools \ ExposedTools, call \in Calls :
      Evaluate(Unknown, t, call) # "deny" =>
        LET authored == Concrete \ (IF Default \in Concrete THEN {Default} ELSE {Fallback})
        IN  \/ \E n \in authored : ToolPolicy(PolicySet[n], t).mode # "deny"
            \/ ~Lists(Default, t) /\ \A n \in authored : GrantsUnlisted(n) => Lists(n, t)

\* Misspelt in a document, a rule leaves the real tool to the default; when that
\* lets some call further than the rule would, the drift is an error
\* (_resolved_unknown_tool_severity).
DriftIsGraded ==
  Loads => \A n \in Columns, t \in Tools \ Reserved : Lists(n, t) =>
    LET rule == PolicySet[n].tools[t]
        Reach(r, call) ==
          IF r.mode # "deny" /\ Holds(PolicySet[n].constraints \cup r.constraints, <<n, call>>)
          THEN Strictness(r.mode) ELSE Strictness("deny")
    IN  (\E call \in Calls : Reach(PolicySet[n].default, call) < Reach(rule, call))
          => ResolvedSeverity(rule, PolicySet[n].default) = "error"
=============================================================================
