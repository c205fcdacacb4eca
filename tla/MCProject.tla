----------------------------- MODULE MCProject -----------------------------
(* A project's policies, from their meaning to their rows: modules linked      *)
(* (this module's own variables), a role-keyed document, one of its            *)
(* constraints, the engines compiled from it, what requests leave stored, and   *)
(* who may make them.  They share no state: each behaviour is one of one of    *)
(* them.                                                                       *)
EXTENDS PolicyLints, MCRows, TLC

CONSTANT Unknown   \* of a role: no policy names it

VARIABLES raw, fences, node, pieces

-----------------------------------------------------------------------------
(* Modules: a refund of 1 or 2, under a constant that is the most it may be.  *)

MCSmall == Values \X {1}
MCCap == {x \in Cases : x[2] <= x[1]}

Rule(mode, constraints) == [mode |-> mode, constraints |-> constraints]

\* A module with rules for a tool and for the key of a gate, or for neither.
MCModule(default, pay, run, const) ==
  [default |-> default, tools |-> [t \in Tools |-> IF t = "pay" THEN pay ELSE run],
   const |-> const, foreign |-> FALSE]

MCBoundaries ==
  {MCModule("deny", Rule("allow", {MCCap}), None, 1),
   MCModule("deny", None, Rule("allow", {}), None),
   MCModule("allow", Rule("deny", {}), None, None),
   MCModule("allow", Rule("deny", {MCSmall}), None, None),
   MCModule("deny", Rule("deny", {MCSmall}), Rule("deny", {MCSmall}), None),
   MCModule("allow", Rule("approval_required", {MCSmall}), Rule("deny", {MCSmall}), 2)}

MCCapabilities ==
  {MCModule("deny", Rule("allow", {}), None, None),
   MCModule("deny", Rule("allow", {MCSmall}), Rule("allow", {}), None),
   MCModule("deny", Rule("approval_required", {MCCap}), None, 2),
   MCModule("deny", Rule("deny", {}), Rule("allow", {}), None)}

-----------------------------------------------------------------------------
(* Documents: three roles, the second of which may be the default.            *)

Facts == {1, 2, 3, Unknown, None}
Small == Facts \X {1}
IsDefault == {2} \X Calls
NotFirst == (Facts \ {1, None}) \X Calls

Form(default, pay, run, constraints, usage, mixin, inherits) ==
  [default |-> default, tools |-> [t \in {"pay", "run", "see"} |->
     CASE t = "pay" -> pay [] t = "run" -> run [] t = "see" -> None],
   constraints |-> constraints, usage |-> usage, mixin |-> mixin, inherits |-> inherits]

Allow == Rule("allow", {})

RoleForms ==
  {Form(None, Allow, None, {}, None, FALSE, <<>>),
   Form(Allow, None, None, {}, None, FALSE, <<>>),
   Form(Rule("approval_required", {}), Rule("deny", {}), Allow, {}, None, FALSE, <<>>),
   Form(None, Rule("allow", {Small}), Rule("allow", {IsDefault}), {}, "deny", TRUE, <<>>),
   Form(Rule("allow", {NotFirst}), Rule("approval_required", {}), None, {Small}, "deny", FALSE, <<>>),
   Form(None, None, None, {}, None, FALSE, <<2>>),
   Form(None, Rule("allow", {}), None, {}, None, FALSE, <<3, 1>>),
   Form(Allow, None, Rule("approval_required", {}), {IsDefault}, None, TRUE, <<1>>),
   Form(None, None, None, {NotFirst}, "allow", FALSE, <<3>>)}

Callers == {<<>>, <<1>>, <<2>>, <<3>>, <<Unknown>>, <<3, 1>>, <<Unknown, 2, 1>>}

Sets == INSTANCE PolicyReport WITH
  Names <- {1, 2, 3}, Default <- 2, Fences <- {NotFirst},
  Tools <- {"pay", "run", "see"}, Reserved <- {"run"}, MaxEvaluatedRoles <- 2

setsVars == <<raw, fences>>

-----------------------------------------------------------------------------
(* Constraints over an amount, items that may be a list, and a limit.         *)

Number(n) == [type |-> "number", val |-> n]
Text(n) == [type |-> "string", val |-> n]
List(s) == [type |-> "list", val |-> s]
Object(s) == [type |-> "object", val |-> s]

Ref(f) == [kind |-> "ref", of |-> f]
Lit(v) == [kind |-> "lit", of |-> v]
Const(v) == [kind |-> "const", of |-> v]
Cmp(op, left, right) == [op |-> op, left |-> left, right |-> right]
Over(op, list, body) == [op |-> op, over |-> list, body |-> body]
Elem == [kind |-> "elem", of |-> None]

Leaves ==
  {Cmp("<=", Ref("amount"), Lit(Number(2))),
   Cmp(">", Ref("amount"), Const(Number(1))),
   Cmp("<", Ref("amount"), Ref("limit")),
   Cmp("!=", Ref("amount"), Lit(Number(2))),
   Cmp("in", Ref("amount"), Const(List(<<Number(1), Text(1)>>))),
   Cmp("not in", Ref("amount"), Const(List(<<Number(1)>>))),
   Cmp("in", Ref("amount"), Const(Object(<<Number(2)>>))),
   Cmp("not in", Ref("amount"), Const(Text(1))),
   Cmp(">=", [kind |-> "count", of |-> "items"], Lit(Number(1))),
   Cmp("<", Ref("amount"), Lit([type |-> "null", val |-> 0])),
   Over("every", Ref("items"), Cmp("<=", Elem, Lit(Number(2)))),
   Over("any", Ref("items"), Cmp("==", Elem, Ref("limit"))),
   [op |-> "startswith", arg |-> Ref("amount")]}

Amounts ==
  {None, Number(1), Number(2), Number(3), Text(1), Text(2),
   [type |-> "bool", val |-> 1], [type |-> "null", val |-> 0]}

ItemLists ==
  {None, Text(2), List(<<>>), List(<<Number(1), Text(3)>>), List(<<Number(2)>>),
   List(<<Number(3)>>), Object(<<Number(2), Number(1)>>)}

Limits == {None, Number(2), Text(2)}

Contexts ==
  {[amount |-> a, items |-> i, limit |-> l] : a \in Amounts, i \in ItemLists, l \in Limits}

Written == INSTANCE Constraints WITH Starts <- LAMBDA v : v.val = 1, MaxPieces <- 3

nodeVars == <<node, pieces>>

-----------------------------------------------------------------------------

\* Agents are alike; so are requests, which are the threads as well; and hashes.
Symmetric ==
  Permutations(StoredAgents) \cup Permutations(Requests) \cup Permutations(Hashes)

ASSUME ProjectAssumption == Sets!PolicySetsAssumption

projectVars == <<vars, setsVars, nodeVars, rowsVars>>

\* The parts that are not looked at have one state.
ProjectInit ==
  /\ Init /\ Sets!Init /\ Written!Init /\ RowsInit
  /\ part # "constraint" => node = Cmp("<", Ref("amount"), Ref("limit"))

ProjectNext ==
  \/ part = "modules" /\ Next /\ UNCHANGED <<rowsVars, setsVars, nodeVars>>
  \/ part = "document" /\ Sets!Next /\ UNCHANGED <<rowsVars, vars, nodeVars>>
  \/ part = "constraint" /\ Written!Next /\ UNCHANGED <<rowsVars, vars, setsVars>>
  \/ RowsNext /\ UNCHANGED <<vars, setsVars, nodeVars>>

ProjectSpec == ProjectInit /\ [][ProjectNext]_projectVars

-----------------------------------------------------------------------------
(* What the modules promise; each says there what it is about.  A part is      *)
(* looked at where it is what the behaviour is of.                             *)


\* The same for callers without roles, as the tests have it.
EnginesAgreeOnAnyone == part = "document" => Sets!EnginesAgreeOnAnyone

\* What holds a role back is inherited.
FencesAreKept == part = "document" => Sets!FencesAreKept

\* What is reported is so: the lints of a modular project, what the matrix of a
\* document shows, and the exposure of its default role.
ReportsAreTrue ==
  /\ part = "modules" => LintsTellTheTruth
  /\ part = "document" => Sets!MatrixIsWhatRuns /\ Sets!SilentMeansGranted

\* What a lint grades as less than an error lets nobody further than was meant:
\* rules on names that do not exist, and constraints on fields no call sets.
GradedByDirection ==
  /\ part = "modules" => FailOpenIsAnError
  /\ part = "document" => Sets!DriftIsGraded
  /\ part = "constraint" => Written!FailOpenIsAnError
=============================================================================
